---- MODULE Spec2Model ----
(***************************************************************************)
(* coreason-budget: hierarchical daily spend quotas over a Redis counter   *)
(* store.  The model covers RedisLedger (ledger.py), BudgetGuard           *)
(* (guard.py) and BudgetManager (manager.py).                              *)
(*                                                                         *)
(* Time is counted in half-second ticks: an even tick is an exact second,  *)
(* an odd tick an instant strictly between two seconds, so that the        *)
(* truncation int(total_seconds()) is modelled and not assumed away.       *)
(* Money is counted in whole units (integers).                             *)
(* A Redis key "a:b:c" is the sequence of its colon-separated tokens.      *)
(***************************************************************************)
EXTENDS Integers, Sequences, FiniteSets, TLC

\* ---------------------------------------------------------------- bounds
\* seconds in one UTC day (86400 in the program, scaled down)
DaySeconds == 1
\* the clock stops after this many ticks
MaxNow == 2
\* record_spend and increment calls started in one behaviour
MaxWrites == 2
\* round trips to the backend that fail in one behaviour
MaxFaults == 1
\* configured limits at construction (config.py defaults, scaled down)
InitGlobalLimit == 4
InitProjectLimit == 3
InitUserLimit == 2

\* ------------------------------------------------------------- constants
\* Redis TTL reply for a key without expiry
NoExpiry == -1

\* concurrent callers
NumProcs == 2
Procs == 1..NumProcs

\* Optional[...] values: None is the empty sequence, a string id is the
\* sequence of its colon-free tokens ("" is <<"">>).
None == <<>>
Some(x) == <<x>>

Dates == <<"2025-01-01", "2025-01-02", "2025-01-03", "2025-01-04", "2025-01-05">>

\* ------------------------------------------------------------ float model
Fin(v) == [cls |-> "finite", v |-> v]
NaN == [cls |-> "nan", v |-> 0]
PosInf == [cls |-> "inf", v |-> 0]
NegInf == [cls |-> "-inf", v |-> 0]
\* math.isfinite
isfinite(a) == a.cls = "finite"
\* the amount of a call that carries none
NoAmount == Fin(0)

\* ------------------------------------------------------- inputs of a run
\* user_id, project_id, model: a valid one, None, "" and whitespace
ValidUsers == {<<"u1">>}
UserIds == ValidUsers \cup {<<"">>, <<" ">>}
ProjectIds == {None, <<"p1">>, <<" ">>}
ModelNames == {None, <<"gpt-4">>, <<" ">>}
Amounts == {Fin(-1), Fin(2), NaN, PosInf, NegInf}
Estimates == {-1, 0, 1, 3}
\* the arguments of check_availability: every estimate for a valid user,
\* one call for each invalid user_id
CheckArgs ==
  {x \in UserIds \X {None, <<"p1">>} \X Estimates :
     x[1] \in ValidUsers \/ (x[2] = None /\ x[3] = 0)}
\* the arguments of record_spend: the valid calls, the calls with one
\* argument invalid, and the calls with project_id and model both absent
Flaws(u, a, pr, m) ==
  (IF u \in ValidUsers THEN 0 ELSE 1) + (IF a.cls = "finite" THEN 0 ELSE 1)
  + (IF pr = <<"p1">> THEN 0 ELSE 1) + (IF m = <<"gpt-4">> THEN 0 ELSE 1)
RecordArgs ==
  {x \in UserIds \X Amounts \X ProjectIds \X ModelNames :
     \/ Flaws(x[1], x[2], x[3], x[4]) = 0
     \/ Flaws(x[1], x[2], x[3], x[4]) = 1 /\ (x[2] = Fin(2) \/ x[2].cls # "finite")
     \/ x[1] \in ValidUsers /\ x[2] = Fin(2) /\ x[3] = None /\ x[4] = None}
\* the request most tests make: one user, one project, one model
RaceUser == <<"u1">>
RaceProject == <<"p1">>
RaceModel == <<"gpt-4">>
RaceEstimate == 1
RaceAmount == Fin(2)
\* the estimates of a check
CheckEstimates == {0, 1}
\* project_id and model of a call of the guard: absent or given
GuardProjects == {None, RaceProject}
GuardModels == {None, RaceModel}
\* the ttl of an increment followed by a read: none, zero, one second
ReadTtls == {None, Some(0), Some(1)}
\* project_id of a call whose scopes are looked at: None, "", an id, blanks
ScopeProjects == {None, <<"">>, RaceProject, <<" ">>}
\* the arguments of direct calls of the ledger
LedgerKeys == {<<"k">>}
LedgerAmounts == {Fin(-1), Fin(2)}
LedgerTtls == {None, Some(1), Some(2)}

VARIABLES
  store,    \* the Redis keyspace: key -> [isnum, n, s, ttl]
  now,      \* the UTC clock, in ticks
  config,   \* CoreasonBudgetConfig: the three daily limits
  calls,    \* per caller: the call in progress
  last,     \* the call that ended last, as its caller saw it end
  nwrites,  \* record_spend and increment calls started so far
  nfaults,  \* round trips to the backend that failed so far
  metrics,  \* the METRIC log lines emitted by record_spend
  applied,  \* history: per key, the sum of the amounts of the increments that returned
  expired   \* history: the keys the backend has deleted

vars == <<store, now, config, calls, last, nwrites, nfaults, metrics, applied, expired>>

\* ------------------------------------------------------------------ clock
\* strftime("%Y-%m-%d") of the clock
DayOf(t) == (t \div 2) \div DaySeconds
\* a plausible slip: the date taken from a local clock behind UTC
get_date_str_lagging(t) == Dates[(((IF t > 0 THEN t - 1 ELSE 0) \div 2) \div DaySeconds) + 1]
get_date_str(t) == Dates[DayOf(t) + 1]

\* _get_ttl_seconds: int((midnight - now).total_seconds())
get_ttl_seconds(t) ==
  LET midnight == (DayOf(t) + 1) * DaySeconds * 2
  IN  (midnight - t) \div 2

\* ------------------------------------------------------------------ Redis
EmptyStore == [k \in {} |-> 0]
Put(st, k, e) == [x \in (DOMAIN st) \cup {k} |-> IF x = k THEN e ELSE st[x]]
Del(st, k) == [x \in (DOMAIN st) \ {k} |-> st[x]]
NumEntry(n, ttl) == [isnum |-> TRUE, n |-> n, s |-> "", ttl |-> ttl]

\* GET: nil for an absent key, else the payload
RedisGET(st, k) ==
  IF k \in DOMAIN st
    THEN [nil |-> FALSE, isnum |-> st[k].isnum, n |-> st[k].n, s |-> st[k].s]
    ELSE [nil |-> TRUE, isnum |-> FALSE, n |-> 0, s |-> ""]

\* a plausible slip: the counter floored at zero
RedisINCRBYFLOAT_floored(st, k, amount) ==
  IF ~isfinite(amount) \/ (k \in DOMAIN st /\ ~st[k].isnum)
    THEN [err |-> TRUE, st |-> st, value |-> 0]
    ELSE LET old == IF k \in DOMAIN st THEN st[k].n ELSE 0
             ttl == IF k \in DOMAIN st THEN st[k].ttl ELSE NoExpiry
             new == IF old + amount.v < 0 THEN 0 ELSE old + amount.v
         IN  [err |-> FALSE, st |-> Put(st, k, NumEntry(new, ttl)), value |-> new]

\* INCRBYFLOAT: an absent key counts as 0 and is created without expiry; an
\* existing key keeps its expiry; a payload or an increment that is no finite
\* number is an error and changes nothing.
RedisINCRBYFLOAT(st, k, amount) ==
  IF ~isfinite(amount) \/ (k \in DOMAIN st /\ ~st[k].isnum)
    THEN [err |-> TRUE, st |-> st, value |-> 0]
    ELSE LET old == IF k \in DOMAIN st THEN st[k].n ELSE 0
             ttl == IF k \in DOMAIN st THEN st[k].ttl ELSE NoExpiry
         IN  [err |-> FALSE,
              st |-> Put(st, k, NumEntry(old + amount.v, ttl)),
              value |-> old + amount.v]

\* TTL of an existing key: -1 without expiry
RedisTTL(st, k) == st[k].ttl

\* a plausible slip: the timeout counted in half seconds
RedisEXPIRE_halved(st, k, seconds) ==
  IF seconds <= 0 THEN Del(st, k)
  ELSE Put(st, k, [st[k] EXCEPT !.ttl = seconds])

\* EXPIRE: a timeout that is not positive deletes the key
RedisEXPIRE(st, k, seconds) ==
  IF seconds <= 0 THEN Del(st, k)
  ELSE Put(st, k, [st[k] EXCEPT !.ttl = 2 * seconds])

\* one tick of the backend: running expiries count down, a key whose
\* expiry has run out is gone
ExpireKeys(st) ==
  LET live == {k \in DOMAIN st : st[k].ttl # 1}
  IN  [k \in live |-> IF st[k].ttl = NoExpiry THEN st[k]
                      ELSE [st[k] EXCEPT !.ttl = @ - 1]]

\* ----------------------------------------------------------------- Ledger
\* a plausible slip: an expiry of one day given to a key when the caller
\* passes no ttl
LuaSetExpiryDefault(st, k, ttlArg) ==
  IF RedisTTL(st, k) = NoExpiry
    THEN RedisEXPIRE(st, k, IF ttlArg # None THEN ttlArg[1] ELSE DaySeconds)
    ELSE st

\* a plausible slip: EXPIRE on every call that passes a ttl
LuaSetExpiryAlways(st, k, ttlArg) ==
  IF ttlArg # None THEN RedisEXPIRE(st, k, ttlArg[1]) ELSE st

\* the body of LUA_INCREMENT_SCRIPT after INCRBYFLOAT: the expiry is set
\* only when a ttl is passed and TTL answers -1
LuaSetExpiryOnce(st, k, ttlArg) ==
  IF ttlArg # None /\ RedisTTL(st, k) = NoExpiry
    THEN RedisEXPIRE(st, k, ttlArg[1])
    ELSE st

\* a plausible slip: a payload that is no number counted as zero and replaced
LuaIncrementHeal(st, k, amount, ttlArg) ==
  LET st0 == IF k \in DOMAIN st /\ ~st[k].isnum
               THEN Put(st, k, NumEntry(0, st[k].ttl)) ELSE st
      r == RedisINCRBYFLOAT(st0, k, amount)
  IN  IF r.err THEN r
      ELSE [err |-> FALSE, st |-> LuaSetExpiryOnce(r.st, k, ttlArg), value |-> r.value]

\* a plausible slip: SET in place of INCRBYFLOAT
LuaIncrementOverwrite(st, k, amount, ttlArg) ==
  IF ~isfinite(amount) THEN [err |-> TRUE, st |-> st, value |-> 0]
  ELSE [err |-> FALSE,
        st |-> LuaSetExpiryOnce(Put(st, k, NumEntry(amount.v,
                 IF k \in DOMAIN st THEN st[k].ttl ELSE NoExpiry)), k, ttlArg),
        value |-> amount.v]

\* LUA_INCREMENT_SCRIPT, run atomically by the backend
LuaIncrement(st, k, amount, ttlArg) ==
  LET r == RedisINCRBYFLOAT(st, k, amount)
  IN  IF r.err THEN r
      ELSE [err |-> FALSE, st |-> LuaSetExpiryOnce(r.st, k, ttlArg), value |-> r.value]

\* a plausible slip: str(ttl) if ttl else "nil", so that a ttl of zero is
\* sent as no ttl
Ledger_increment_falsy_ttl(st, k, amount, ttlArg, fault) ==
  IF fault THEN [exc |-> "RedisError", st |-> st, value |-> 0]
  ELSE LET r == LuaIncrement(st, k, amount, IF ttlArg = Some(0) THEN None ELSE ttlArg)
       IN  IF r.err THEN [exc |-> "RedisError", st |-> st, value |-> 0]
           ELSE [exc |-> "none", st |-> r.st, value |-> r.value]

\* RedisLedger.increment: the script's reply, or the RedisError raised.
\* fault: the backend is unreachable for this round trip.
Ledger_increment(st, k, amount, ttlArg, fault) ==
  IF fault THEN [exc |-> "RedisError", st |-> st, value |-> 0]
  ELSE LET r == LuaIncrement(st, k, amount, ttlArg)
       IN  IF r.err THEN [exc |-> "RedisError", st |-> st, value |-> 0]
           ELSE [exc |-> "none", st |-> r.st, value |-> r.value]

\* float(val) if val else 0.0: None and "" are falsy, float() of a payload
\* that is no number raises ValueError
float_or_zero(val) ==
  IF val.nil \/ (~val.isnum /\ val.s = "") THEN [exc |-> "none", value |-> 0]
  ELSE IF val.isnum THEN [exc |-> "none", value |-> val.n]
  ELSE [exc |-> "ValueError", value |-> 0]

\* a plausible slip: a failed read answered as zero usage
Ledger_get_usage_swallow(st, k, fault) ==
  IF fault THEN [exc |-> "none", value |-> 0, st |-> st]
  ELSE [exc |-> float_or_zero(RedisGET(st, k)).exc,
        value |-> float_or_zero(RedisGET(st, k)).value, st |-> st]

\* a plausible slip: the counter read by INCRBYFLOAT 0, which creates it
Ledger_get_usage_touch(st, k, fault) ==
  IF fault THEN [exc |-> "RedisError", value |-> 0, st |-> st]
  ELSE LET r == RedisINCRBYFLOAT(st, k, NoAmount)
       IN  [exc |-> IF r.err THEN "RedisError" ELSE "none", value |-> r.value, st |-> r.st]

\* a plausible slip: an absent counter initialised by the read (SETNX key 0)
Ledger_get_usage_create(st, k, fault) ==
  IF fault THEN [exc |-> "RedisError", value |-> 0, st |-> st]
  ELSE [exc |-> float_or_zero(RedisGET(st, k)).exc,
        value |-> float_or_zero(RedisGET(st, k)).value,
        st |-> IF k \in DOMAIN st THEN st ELSE Put(st, k, NumEntry(0, NoExpiry))]

\* RedisLedger.get_usage: the value read, or the error raised; the backend
\* is left as it was.  fault: the backend is unreachable for this round trip.
Ledger_get_usage(st, k, fault) ==
  IF fault THEN [exc |-> "RedisError", value |-> 0, st |-> st]
  ELSE [exc |-> float_or_zero(RedisGET(st, k)).exc,
        value |-> float_or_zero(RedisGET(st, k)).value, st |-> st]

\* a plausible slip: the sync variant never passing its ttl to the script
SyncLedger_increment_nottl(st, k, amount, ttlArg, fault) ==
  IF fault THEN [exc |-> "RedisError", st |-> st, value |-> 0]
  ELSE LET r == LuaIncrement(st, k, amount, None)
       IN  IF r.err THEN [exc |-> "RedisError", st |-> st, value |-> 0]
           ELSE [exc |-> "none", st |-> r.st, value |-> r.value]

\* SyncRedisLedger.increment: the same script through the blocking client
SyncLedger_increment(st, k, amount, ttlArg, fault) ==
  IF fault THEN [exc |-> "RedisError", st |-> st, value |-> 0]
  ELSE LET r == LuaIncrement(st, k, amount, ttlArg)
       IN  IF r.err THEN [exc |-> "RedisError", st |-> st, value |-> 0]
           ELSE [exc |-> "none", st |-> r.st, value |-> r.value]

\* SyncRedisLedger.get_usage: GET through the blocking client
SyncLedger_get_usage(st, k, fault) ==
  IF fault THEN [exc |-> "RedisError", value |-> 0, st |-> st]
  ELSE [exc |-> float_or_zero(RedisGET(st, k)).exc,
        value |-> float_or_zero(RedisGET(st, k)).value, st |-> st]

\* ------------------------------------------------------------------ Guard
\* Python truthiness of an Optional[str]
Truthy(id) == id # None /\ id # <<"">>
\* not id or not id.strip()
IsBlank(id) == ~Truthy(id) \/ id = <<" ">>

GlobalItem(cfg, date) ==
  [key |-> <<"spend", "v1", "global", date>>,
   limit |-> cfg.daily_global_limit_usd, scope |-> <<"Global">>]
ProjectItem(cfg, date, project_id) ==
  [key |-> <<"spend", "v1", "project">> \o project_id \o <<date>>,
   limit |-> cfg.daily_project_limit_usd, scope |-> <<"Project">> \o project_id]
UserItem(cfg, date, user_id) ==
  [key |-> <<"spend", "v1", "user">> \o user_id \o <<date>>,
   limit |-> cfg.daily_user_limit_usd, scope |-> <<"User">> \o user_id]

\* a plausible slip: a project scope derived for every call, named "none"
\* when no project_id is given
get_keys_and_limits_always_project(cfg, t, user_id, project_id) ==
  <<GlobalItem(cfg, get_date_str(t)),
    ProjectItem(cfg, get_date_str(t), IF Truthy(project_id) THEN project_id ELSE <<"none">>),
    UserItem(cfg, get_date_str(t), user_id)>>

\* a plausible slip: the limits kept from construction
get_keys_and_limits_cached(cfg, t, user_id, project_id) ==
  LET cfg0 == [daily_global_limit_usd |-> InitGlobalLimit,
               daily_project_limit_usd |-> InitProjectLimit,
               daily_user_limit_usd |-> InitUserLimit]
  IN  <<GlobalItem(cfg0, get_date_str(t))>>
      \o (IF Truthy(project_id) THEN <<ProjectItem(cfg0, get_date_str(t), project_id)>>
          ELSE <<>>)
      \o <<UserItem(cfg0, get_date_str(t), user_id)>>

\* a plausible slip: the date left out of the key (one counter for all days)
get_keys_and_limits_undated(cfg, t, user_id, project_id) ==
  <<GlobalItem(cfg, Dates[1])>>
  \o (IF Truthy(project_id) THEN <<ProjectItem(cfg, Dates[1], project_id)>> ELSE <<>>)
  \o <<UserItem(cfg, Dates[1], user_id)>>

\* a plausible slip: the scopes listed User -> Project -> Global
get_keys_and_limits_reversed(cfg, t, user_id, project_id) ==
  <<UserItem(cfg, get_date_str(t), user_id)>>
  \o (IF Truthy(project_id) THEN <<ProjectItem(cfg, get_date_str(t), project_id)>> ELSE <<>>)
  \o <<GlobalItem(cfg, get_date_str(t))>>

\* a plausible slip: an id cut at its first colon before it goes into the key
get_keys_and_limits_first_segment(cfg, t, user_id, project_id) ==
  <<GlobalItem(cfg, get_date_str(t))>>
  \o (IF Truthy(project_id)
        THEN <<[ProjectItem(cfg, get_date_str(t), project_id) EXCEPT
                  !.key = <<"spend", "v1", "project", project_id[1], get_date_str(t)>>]>>
        ELSE <<>>)
  \o <<[UserItem(cfg, get_date_str(t), user_id) EXCEPT
          !.key = <<"spend", "v1", "user", user_id[1], get_date_str(t)>>]>>

\* _get_keys_and_limits: Global, then Project when a project_id is given, then User
get_keys_and_limits(cfg, t, user_id, project_id) ==
  <<GlobalItem(cfg, get_date_str(t))>>
  \o (IF Truthy(project_id) THEN <<ProjectItem(cfg, get_date_str(t), project_id)>> ELSE <<>>)
  \o <<UserItem(cfg, get_date_str(t), user_id)>>

\* a plausible slip: only the projected usage tested
LimitReachedProjected(used, limit, estimated_cost) ==
  estimated_cost > 0 /\ used + estimated_cost > limit

\* a plausible slip: > in place of >= on the exhausted test
LimitReachedStrict(used, limit, estimated_cost) ==
  used > limit \/ (estimated_cost > 0 /\ used + estimated_cost > limit)

\* a plausible slip: the estimate added before the one comparison, so that a
\* negative estimate lets an exhausted scope pass
LimitReachedNet(used, limit, estimated_cost) ==
  used + estimated_cost >= limit

\* the test of check_availability on one scope
LimitReached(used, limit, estimated_cost) ==
  used >= limit \/ (estimated_cost > 0 /\ used + estimated_cost > limit)

\* ------------------------------------------------------------------ calls
IdleCall ==
  [op |-> "idle", pc |-> "idle", user |-> None, project |-> None, model |-> None,
   amount |-> Fin(0), est |-> 0, items |-> <<>>, i |-> 0, ttl |-> None,
   outcome |-> "none", excScope |-> <<>>, excLimit |-> 0, trace |-> <<>>,
   quiet |-> TRUE, conc |-> FALSE, prettl |-> 0, ret |-> 0]

Raise(c, exc, what, limit) ==
  [c EXCEPT !.pc = "done", !.outcome = exc, !.excScope = what, !.excLimit = limit]

\* history: the round trip for key k and whether the backend served it
Logged(c, k, ok) == [c EXCEPT !.trace = Append(@, [key |-> k, ok |-> ok])]
Served(st, k, amount, ttlArg, fault) == ~fault /\ ~LuaIncrement(st, k, amount, ttlArg).err

\* a call has seen the store change since it began
Disturbed(c, st1) ==
  IF st1 # store /\ c.pc # "idle" THEN [c EXCEPT !.quiet = FALSE] ELSE c

\* a plausible slip: all scopes read, the first violated one raised at the end
check_step_exhaustive(c, r) ==
  LET item == c.items[c.i]
      hit == LimitReached(r.value, item.limit, c.est) /\ c.excScope = <<>>
      c1 == IF hit THEN [c EXCEPT !.excScope = item.scope, !.excLimit = item.limit] ELSE c
  IN  IF r.exc # "none" THEN Raise(c, r.exc, <<>>, 0)
      ELSE IF c.i < Len(c.items) THEN [c1 EXCEPT !.i = @ + 1]
      ELSE IF c1.excScope # <<>>
        THEN Raise(c1, "BudgetExceededError", c1.excScope, c1.excLimit)
      ELSE [c EXCEPT !.pc = "done", !.outcome = "ok"]

\* one turn of the loop of BudgetGuard.check_availability, after the await
\* of get_usage returned r
check_step(c, r) ==
  LET item == c.items[c.i]
  IN  IF r.exc # "none" THEN Raise(c, r.exc, <<>>, 0)
      ELSE IF LimitReached(r.value, item.limit, c.est)
        THEN Raise(c, "BudgetExceededError", item.scope, item.limit)
      ELSE IF c.i = Len(c.items) THEN [c EXCEPT !.pc = "done", !.outcome = "ok"]
      ELSE [c EXCEPT !.i = @ + 1]

\* a plausible slip: the spend refused when it takes the counter over the limit
record_step_enforcing(c, r) ==
  IF r.exc # "none" THEN Raise(c, r.exc, <<>>, 0)
  ELSE IF r.value > c.items[c.i].limit
    THEN Raise(c, "BudgetExceededError", c.items[c.i].scope, c.items[c.i].limit)
  ELSE IF c.i = Len(c.items) THEN [c EXCEPT !.pc = "done", !.outcome = "ok"]
  ELSE [c EXCEPT !.i = @ + 1]

\* a plausible slip: a failed increment tried again
record_step_retry(c, r) ==
  IF r.exc # "none" THEN c
  ELSE IF c.i = Len(c.items) THEN [c EXCEPT !.pc = "done", !.outcome = "ok"]
  ELSE [c EXCEPT !.i = @ + 1]

\* a plausible slip: a failed increment skipped, the loop going on
record_step_continue(c, r) ==
  IF c.i = Len(c.items) THEN [c EXCEPT !.pc = "done", !.outcome = "ok"]
  ELSE [c EXCEPT !.i = @ + 1]

\* one turn of the loop of BudgetGuard.record_spend, after the await of
\* increment returned r
record_step(c, r) ==
  IF r.exc # "none" THEN Raise(c, r.exc, <<>>, 0)
  ELSE IF c.i = Len(c.items) THEN [c EXCEPT !.pc = "done", !.outcome = "ok"]
  ELSE [c EXCEPT !.i = @ + 1]

\* the METRIC line of record_spend
MetricEvent(c) ==
  [amount |-> c.amount,
   model |-> IF Truthy(c.model) THEN c.model ELSE <<"unknown">>,
   project |-> IF Truthy(c.project) THEN c.project ELSE <<"none">>,
   user |-> c.user]

\* ---------------------------------------------------------------- Manager
\* a plausible slip: the isfinite test left out
record_spend_invalid_nofinite(user_id, amount, project_id, model) ==
  IF IsBlank(user_id) THEN <<"user_id must be a non-empty string.">>
  ELSE IF IsBlank(project_id) THEN <<"project_id must be a non-empty string.">>
  ELSE IF IsBlank(model) THEN <<"model must be a non-empty string.">>
  ELSE <<>>

\* the ValueError BudgetManager.record_spend raises, <<>> when it raises none
record_spend_invalid(user_id, amount, project_id, model) ==
  IF IsBlank(user_id) THEN <<"user_id must be a non-empty string.">>
  ELSE IF IsBlank(project_id) THEN <<"project_id must be a non-empty string.">>
  ELSE IF IsBlank(model) THEN <<"model must be a non-empty string.">>
  ELSE IF ~isfinite(amount) THEN <<"Amount must be a finite number.">>
  ELSE <<>>

\* the ValueError BudgetManager.check_availability raises, <<>> when none
check_availability_invalid(user_id) ==
  IF IsBlank(user_id) THEN <<"user_id must be a non-empty string.">> ELSE <<>>

\* ---------------------------------------------------------------- actions
Add(ap, k, v) == [x \in (DOMAIN ap) \cup {k} |-> IF x = k
                    THEN (IF k \in DOMAIN ap THEN ap[k] ELSE 0) + v ELSE ap[x]]

\* caller p's call becomes c2 and the store st1: a call that ended is handed
\* to its caller, a call that begins takes the place of the last result, and
\* every other call notes a change of the store
Step(p, c2, st1) ==
  /\ store' = st1
  /\ calls' = [q \in Procs |-> IF q = p THEN (IF c2.pc = "done" THEN IdleCall ELSE c2)
                              ELSE Disturbed(calls[q], st1)]
  /\ last' = IF c2.pc = "done" THEN c2
             ELSE IF calls[p].pc = "idle" THEN IdleCall
             ELSE Disturbed(last, st1)
  /\ expired' = expired \cup ((DOMAIN store) \ (DOMAIN st1))

\* whether this round trip fails
Faults == IF nfaults < MaxFaults THEN BOOLEAN ELSE {FALSE}
Count(fault) == nfaults' = nfaults + (IF fault THEN 1 ELSE 0)

Init ==
  /\ store = EmptyStore
  /\ now = 0
  /\ config = [daily_global_limit_usd |-> InitGlobalLimit,
               daily_project_limit_usd |-> InitProjectLimit,
               daily_user_limit_usd |-> InitUserLimit]
  /\ calls = [p \in Procs |-> IdleCall]
  /\ last = IdleCall
  /\ nwrites = 0
  /\ nfaults = 0
  /\ metrics = <<>>
  /\ applied = EmptyStore
  /\ expired = {}

\* BudgetManager.check_availability up to the first await: the validation,
\* then the guard's list of scopes
StartCheck(p, user_id, project_id, estimated_cost) ==
  /\ calls[p].pc = "idle"
  /\ LET c0 == [IdleCall EXCEPT !.op = "check", !.user = user_id,
                                !.project = project_id, !.est = estimated_cost]
         bad == check_availability_invalid(user_id)
     IN  Step(p, IF bad # <<>> THEN Raise(c0, "ValueError", bad, 0)
                 ELSE [c0 EXCEPT !.pc = "run", !.i = 1,
                         !.items = get_keys_and_limits(config, now, user_id, project_id)],
              store)
  /\ UNCHANGED <<now, config, nwrites, nfaults, metrics, applied>>

\* a plausible slip: a lock held for the length of a check, so that a check
\* waits while another caller's check is in progress
CheckStep_locked(p) ==
  /\ calls[p].op = "check"
  /\ calls[p].pc = "run"
  /\ \A q \in Procs \ {p} : calls[q].op # "check"
  /\ \E fault \in Faults :
       LET c == calls[p]
           r == Ledger_get_usage(store, c.items[c.i].key, fault)
       IN  Step(p, Logged(check_step(c, r), c.items[c.i].key, ~fault), r.st) /\ Count(fault)
  /\ UNCHANGED <<now, config, nwrites, metrics, applied>>

\* one await of get_usage in check_availability and the test that follows
CheckStep(p) ==
  /\ calls[p].op = "check"
  /\ calls[p].pc = "run"
  /\ \E fault \in Faults :
       LET c == calls[p]
           r == Ledger_get_usage(store, c.items[c.i].key, fault)
       IN  Step(p, Logged(check_step(c, r), c.items[c.i].key, ~fault), r.st) /\ Count(fault)
  /\ UNCHANGED <<now, config, nwrites, metrics, applied>>

\* BudgetManager.record_spend up to the first await: the validation, then
\* the guard's list of scopes and its ttl
StartRecord(p, user_id, amount, project_id, model) ==
  /\ calls[p].pc = "idle"
  /\ nwrites < MaxWrites
  /\ LET c0 == [IdleCall EXCEPT !.op = "record", !.user = user_id, !.amount = amount,
                                !.project = project_id, !.model = model]
         bad == record_spend_invalid(user_id, amount, project_id, model)
     IN  /\ Step(p, IF bad # <<>> THEN Raise(c0, "ValueError", bad, 0)
                    ELSE [c0 EXCEPT !.pc = "run", !.i = 1,
                            !.items = get_keys_and_limits(config, now, user_id, project_id),
                            !.ttl = Some(get_ttl_seconds(now))],
                 store)
         /\ nwrites' = IF bad # <<>> THEN nwrites ELSE nwrites + 1
  /\ UNCHANGED <<now, config, nfaults, metrics, applied>>

\* a plausible slip: the METRIC line written before the increments
RecordStep_metric_first(p) ==
  /\ calls[p].op = "record"
  /\ calls[p].pc = "run"
  /\ \E fault \in Faults :
       LET c == calls[p]
           k == c.items[c.i].key
           r == Ledger_increment(store, k, c.amount, c.ttl, fault)
           c2 == Logged(record_step(c, r), k, Served(store, k, c.amount, c.ttl, fault))
       IN  /\ Step(p, c2, r.st)
           /\ Count(fault)
           /\ metrics' = IF c.i = 1 THEN Append(metrics, MetricEvent(c)) ELSE metrics
           /\ applied' = IF r.exc = "none" THEN Add(applied, k, c.amount.v) ELSE applied
  /\ UNCHANGED <<now, config, nwrites>>

\* a plausible slip: the key of each increment derived inside the loop, from
\* the date at the moment of that increment
RecordStep_redated(p) ==
  /\ calls[p].op = "record"
  /\ calls[p].pc = "run"
  /\ \E fault \in Faults :
       LET c == calls[p]
           k == get_keys_and_limits(config, now, c.user, c.project)[c.i].key
           r == Ledger_increment(store, k, c.amount, c.ttl, fault)
           c2 == Logged(record_step(c, r), k, Served(store, k, c.amount, c.ttl, fault))
       IN  /\ Step(p, c2, r.st)
           /\ Count(fault)
           /\ metrics' = IF c2.outcome = "ok" THEN Append(metrics, MetricEvent(c))
                         ELSE metrics
           /\ applied' = IF r.exc = "none" THEN Add(applied, k, c.amount.v) ELSE applied
  /\ UNCHANGED <<now, config, nwrites>>

\* one await of increment in record_spend; the METRIC line after the last
RecordStep(p) ==
  /\ calls[p].op = "record"
  /\ calls[p].pc = "run"
  /\ \E fault \in Faults :
       LET c == calls[p]
           k == c.items[c.i].key
           r == Ledger_increment(store, k, c.amount, c.ttl, fault)
           c2 == Logged(record_step(c, r), k, Served(store, k, c.amount, c.ttl, fault))
       IN  /\ Step(p, c2, r.st)
           /\ Count(fault)
           /\ metrics' = IF c2.outcome = "ok" THEN Append(metrics, MetricEvent(c))
                         ELSE metrics
           /\ applied' = IF r.exc = "none" THEN Add(applied, k, c.amount.v) ELSE applied
  /\ UNCHANGED <<now, config, nwrites>>

\* half a second passes; the backend expires what is due
Tick ==
  /\ now < MaxNow
  /\ now' = now + 1
  /\ store' = ExpireKeys(store)
  /\ expired' = expired \cup ((DOMAIN store) \ (DOMAIN ExpireKeys(store)))
  /\ calls' = [q \in Procs |-> Disturbed(calls[q], ExpireKeys(store))]
  /\ last' = Disturbed(last, ExpireKeys(store))
  /\ UNCHANGED <<config, nwrites, nfaults, metrics, applied>>

\* ---------------------------------------------- direct calls of the ledger
LedgerCall(op, k, amount, ttlArg) ==
  [IdleCall EXCEPT !.op = op, !.pc = "run", !.i = 1, !.amount = amount, !.ttl = ttlArg,
                   !.items = <<[key |-> k, limit |-> 0, scope |-> <<>>]>>]

\* history: another caller's increment on the same key is in flight
OtherPending(p, k) ==
  \E q \in Procs \ {p} : calls[q].op = "increment" /\ calls[q].items[1].key = k

\* a caller sends increment(key, amount, ttl) to the backend
StartIncrement(p, k, amount, ttlArg) ==
  /\ calls[p].pc = "idle"
  /\ nwrites < MaxWrites
  /\ Step(p, [LedgerCall("increment", k, amount, ttlArg) EXCEPT
                 !.conc = OtherPending(p, k)], store)
  /\ nwrites' = nwrites + 1
  /\ UNCHANGED <<now, config, nfaults, metrics, applied>>

\* the backend runs the script of one pending increment, or the round trip fails
ExecIncrement(p) ==
  /\ calls[p].op = "increment"
  /\ calls[p].pc = "run"
  /\ \E fault \in Faults :
       LET c == calls[p]
           k == c.items[1].key
           r == Ledger_increment(store, k, c.amount, c.ttl, fault)
           c2 == [Logged(c, k, Served(store, k, c.amount, c.ttl, fault)) EXCEPT
                    !.pc = "done", !.ret = r.value,
                    !.outcome = IF r.exc = "none" THEN "ok" ELSE r.exc,
                    !.prettl = IF k \in DOMAIN store THEN store[k].ttl ELSE -2,
                    !.conc = c.conc \/ OtherPending(p, k)]
       IN  /\ Step(p, c2, r.st)
           /\ Count(fault)
           /\ applied' = IF r.exc = "none" THEN Add(applied, k, c.amount.v) ELSE applied
  /\ UNCHANGED <<now, config, nwrites, metrics>>

\* get_usage(key): one round trip
GetUsage(p, k) ==
  /\ calls[p].pc = "idle"
  /\ \E fault \in Faults :
       LET c == LedgerCall("get_usage", k, NoAmount, None)
           r == Ledger_get_usage(store, k, fault)
       IN  /\ Step(p, [Logged(c, k, ~fault) EXCEPT
                         !.pc = "done", !.ret = r.value,
                         !.outcome = IF r.exc = "none" THEN "ok" ELSE r.exc],
                   r.st)
           /\ Count(fault)
  /\ UNCHANGED <<now, config, nwrites, metrics, applied>>

\* history: the share of the blocking variant in the sum of a key
SyncTag(k) == <<"sync">> \o k

\* SyncRedisLedger.increment(key, amount, ttl): the caller's thread blocks for
\* the round trip, in which the backend runs the script
SyncIncrement(p, k, amount, ttlArg) ==
  /\ calls[p].pc = "idle"
  /\ nwrites < MaxWrites
  /\ \E fault \in Faults :
       LET c == LedgerCall("sync_increment", k, amount, ttlArg)
           r == SyncLedger_increment(store, k, amount, ttlArg, fault)
           c2 == [Logged(c, k, Served(store, k, amount, ttlArg, fault)) EXCEPT
                    !.pc = "done", !.ret = r.value,
                    !.outcome = IF r.exc = "none" THEN "ok" ELSE r.exc,
                    !.prettl = IF k \in DOMAIN store THEN store[k].ttl ELSE -2]
       IN  /\ Step(p, c2, r.st)
           /\ Count(fault)
           /\ applied' = IF r.exc = "none"
                           THEN Add(Add(applied, k, amount.v), SyncTag(k), amount.v)
                           ELSE applied
  /\ nwrites' = nwrites + 1
  /\ UNCHANGED <<now, config, metrics>>

\* SyncRedisLedger.get_usage(key): one blocking round trip
SyncGetUsage(p, k) ==
  /\ calls[p].pc = "idle"
  /\ \E fault \in Faults :
       LET c == LedgerCall("sync_get_usage", k, NoAmount, None)
           r == SyncLedger_get_usage(store, k, fault)
       IN  /\ Step(p, [Logged(c, k, ~fault) EXCEPT
                         !.pc = "done", !.ret = r.value,
                         !.outcome = IF r.exc = "none" THEN "ok" ELSE r.exc],
                   r.st)
           /\ Count(fault)
  /\ UNCHANGED <<now, config, nwrites, metrics, applied>>

\* ---------------------------------------------------------- specifications
\* the manager and its caller
Next ==
  \/ \E x \in CheckArgs : StartCheck(1, x[1], x[2], x[3])
  \/ CheckStep(1)
  \/ \E x \in RecordArgs : StartRecord(1, x[1], x[2], x[3], x[4])
  \/ RecordStep(1)
  \/ Tick

Spec == Init /\ [][Next]_vars

\* concurrent callers of the ledger
NextLedger ==
  \/ \E p \in Procs, k \in LedgerKeys, a \in LedgerAmounts, t \in LedgerTtls :
       StartIncrement(p, k, a, t)
  \/ \E p \in Procs : ExecIncrement(p)
  \/ \E p \in Procs, k \in LedgerKeys : GetUsage(p, k)
  \/ Tick

SpecLedger == Init /\ [][NextLedger]_vars

\* one caller using both variants of the ledger on one backend
NextSync ==
  \/ \E k \in LedgerKeys, a \in LedgerAmounts, t \in LedgerTtls : StartIncrement(1, k, a, t)
  \/ ExecIncrement(1)
  \/ \E k \in LedgerKeys : GetUsage(1, k)
  \/ \E k \in LedgerKeys, a \in LedgerAmounts, t \in LedgerTtls : SyncIncrement(1, k, a, t)
  \/ \E k \in LedgerKeys : SyncGetUsage(1, k)
  \/ Tick

SpecSync == Init /\ [][NextSync]_vars

\* one caller that increments and reads
NextReads ==
  \/ \E k \in LedgerKeys, a \in LedgerAmounts, t \in ReadTtls : StartIncrement(1, k, a, t)
  \/ ExecIncrement(1)
  \/ \E k \in LedgerKeys : GetUsage(1, k)
  \/ Tick

SpecReads == Init /\ [][NextReads]_vars

\* ------------------------------------------------------------------ claims
\* the counter as a reader of the backend sees it
Usage(k) == IF k \in DOMAIN store THEN store[k].n ELSE 0
Sum(k) == IF k \in DOMAIN applied THEN applied[k] ELSE 0
NoIncrementPending(k) ==
  \A p \in Procs : ~(calls[p].op = "increment" /\ calls[p].items[1].key = k)

\* C1: no lost updates.  For a key the backend has not expired, once no
\* increment on it is in flight, get_usage answers the sum of the amounts of
\* all the increments that returned, whatever the order the backend ran them in.
C1_NoLostUpdates ==
  \A k \in LedgerKeys :
    (k \notin expired /\ NoIncrementPending(k)) =>
      /\ Ledger_get_usage(store, k, FALSE).exc = "none"
      /\ Ledger_get_usage(store, k, FALSE).value = Sum(k)

\* two increments, a spend of 2 and a refund of 1, were in flight together
\* and both returned
C1_Witness ==
  /\ last.op = "increment" /\ last.outcome = "ok" /\ last.conc
  /\ nwrites = 2 /\ nfaults = 0
  /\ NoIncrementPending(<<"k">>) /\ <<"k">> \notin expired
  /\ Sum(<<"k">>) = 1 /\ Usage(<<"k">>) = 1

\* C2: TTL set-once.  An increment that returns changes the value by its
\* amount; on a key with a running expiry it leaves the expiry as it was,
\* whatever ttl it passes; on a key without expiry (new, or existing without
\* one) a ttl of t seconds becomes the key's expiry.
C2_TtlSetOnce ==
  [][\A p \in Procs :
       (calls[p].op = "increment" /\ calls'[p].pc = "idle" /\ last'.outcome = "ok") =>
         LET k == calls[p].items[1].key
             t == calls[p].ttl
         IN  IF k \in DOMAIN store /\ store[k].ttl # NoExpiry
               THEN /\ k \in DOMAIN store'
                    /\ store'[k].ttl = store[k].ttl
                    /\ store'[k].n = store[k].n + calls[p].amount.v
               ELSE t # None =>
                      IF t[1] >= 1 THEN k \in DOMAIN store' /\ store'[k].ttl = 2 * t[1]
                      ELSE k \notin DOMAIN store']_vars

\* an increment passing ttl = 1 has just returned on a key whose expiry had
\* more than a second left, and the expiry is what it was
C2_Witness ==
  /\ last.op = "increment" /\ last.outcome = "ok"
  /\ last.ttl = Some(1) /\ last.prettl > 2
  /\ <<"k">> \in DOMAIN store /\ store[<<"k">>].ttl = last.prettl

\* the test the specification states for one scope
ScopeViolated(item, est) ==
  Usage(item.key) >= item.limit \/ (est > 0 /\ Usage(item.key) + est > item.limit)
ViolatedScopes(c) == {i \in 1..Len(c.items) : ScopeViolated(c.items[i], c.est)}
\* global < project < user, read off the key
ScopeRank(item) ==
  IF item.key[3] = "global" THEN 1 ELSE IF item.key[3] = "project" THEN 2 ELSE 3
GlobalFirst(c) ==
  \A i, j \in 1..Len(c.items) : i < j => ScopeRank(c.items[i]) < ScopeRank(c.items[j])
\* a check that ended with an answer while the store stood still
SettledCheck(c) ==
  c.op = "check" /\ c.pc = "done" /\ c.quiet
  /\ (c.outcome = "ok" \/ c.outcome = "BudgetExceededError")

\* C3: hierarchy precedence.  A check_availability that raised
\* BudgetExceededError names, with its limit, the violated scope that comes
\* first in the order Global -> Project -> User.
C3_HierarchyPrecedence ==
  (SettledCheck(last) /\ last.outcome = "BudgetExceededError") =>
    /\ GlobalFirst(last)
    /\ ViolatedScopes(last) # {}
    /\ LET first == CHOOSE i \in ViolatedScopes(last) : \A j \in ViolatedScopes(last) : i <= j
       IN  /\ last.excScope = last.items[first].scope
           /\ last.excLimit = last.items[first].limit

\* global, project and user are all violated and the error names Global
C3_Witness ==
  /\ SettledCheck(last) /\ last.outcome = "BudgetExceededError"
  /\ Cardinality(ViolatedScopes(last)) = 3
  /\ last.excScope = <<"Global">> /\ last.excLimit = config.daily_global_limit_usd

\* C4: boundary semantics.  check_availability returns success if and only
\* if every derived scope has usage < limit and (estimated_cost = 0 or
\* usage + estimated_cost <= limit).
C4_Boundary ==
  SettledCheck(last) =>
    (last.outcome = "ok" <=>
       \A i \in 1..Len(last.items) :
         /\ Usage(last.items[i].key) < last.items[i].limit
         /\ (last.est = 0 \/ Usage(last.items[i].key) + last.est <= last.items[i].limit))

\* a check passed with usage + estimated_cost exactly at the limit of a scope
C4_Witness ==
  /\ SettledCheck(last) /\ last.outcome = "ok" /\ last.est > 0
  /\ \E i \in 1..Len(last.items) :
       /\ last.items[i].key \in DOMAIN store
       /\ Usage(last.items[i].key) + last.est = last.items[i].limit

\* the reads of a call: how many, and the first the backend failed
FailedAt(c) == {i \in 1..Len(c.trace) : ~c.trace[i].ok}
InOrder(c) ==
  /\ Len(c.trace) <= Len(c.items)
  /\ \A i \in 1..Len(c.trace) : c.trace[i].key = c.items[i].key

\* C5: fail closed on read failure.  A check_availability one of whose reads
\* failed has raised that error, has not returned success, and has read no
\* scope after the one that failed.
C5_FailClosedRead ==
  /\ calls[1].op = "check" => FailedAt(calls[1]) = {} /\ InOrder(calls[1])
  /\ last.op = "check" =>
       /\ InOrder(last) /\ GlobalFirst(last)
       /\ FailedAt(last) # {} =>
            /\ last.outcome = "RedisError"
            /\ FailedAt(last) = {Len(last.trace)}
       /\ last.outcome = "ok" => FailedAt(last) = {} /\ Len(last.trace) = Len(last.items)

\* the global read succeeded, the project read failed, the user was not read
C5_Witness ==
  /\ last.op = "check" /\ last.outcome = "RedisError"
  /\ Len(last.items) = 3 /\ Len(last.trace) = 2
  /\ last.trace[1].ok /\ ~last.trace[2].ok

\* the writes of a record_spend: global, then project, then user, and
\* nothing after the first that failed
C6_Shape ==
  /\ calls[1].op = "record" => FailedAt(calls[1]) = {} /\ InOrder(calls[1])
  /\ last.op = "record" =>
       /\ InOrder(last) /\ GlobalFirst(last)
       /\ FailedAt(last) # {} =>
            /\ last.outcome = "RedisError"
            /\ FailedAt(last) = {Len(last.trace)}
       /\ last.outcome = "ok" => FailedAt(last) = {} /\ Len(last.trace) = Len(last.items)

\* one increment of a record_spend: served, the counter of its scope (and no
\* other) moves by amount; failed, no counter and no metric moves
C6_StepEffect ==
  (calls[1].op = "record" /\ now' = now) =>
    LET c == calls[1]
        k == c.items[c.i].key
        c2 == IF calls'[1].op = "record" THEN calls'[1] ELSE last'
    IN  /\ Len(c2.trace) = Len(c.trace) + 1
        /\ c2.trace[Len(c2.trace)].key = k
        /\ \A x \in (DOMAIN store) \cup (DOMAIN store') :
             x # k => x \in DOMAIN store /\ x \in DOMAIN store' /\ store'[x] = store[x]
        /\ IF c2.trace[Len(c2.trace)].ok
             THEN k \in DOMAIN store' => store'[k].n = Usage(k) + c.amount.v
             ELSE /\ store' = store /\ metrics' = metrics
                  /\ calls'[1].op = "idle" /\ last'.outcome = "RedisError"

\* C6: partial multi-scope failure.  record_spend increments Global, then
\* Project, then User without rollback: when the increment of one scope fails
\* the earlier increments stay committed, the failing scope and the later
\* ones are left unchanged, and the error reaches the caller.
C6_PartialFailure == []C6_Shape /\ [][C6_StepEffect]_vars

\* the project increment failed: global holds the amount, project and user
\* were never created
C6_Witness ==
  /\ last.op = "record" /\ last.outcome = "RedisError" /\ last.quiet
  /\ Len(last.items) = 3 /\ Len(last.trace) = 2
  /\ last.trace[1].ok /\ ~last.trace[2].ok
  /\ last.items[1].key \in DOMAIN store
  /\ Usage(last.items[1].key) = last.amount.v
  /\ last.items[2].key \notin DOMAIN store
  /\ last.items[3].key \notin DOMAIN store
  /\ metrics = <<>>

\* C7: check_availability is a dry run.  No step of a check_availability,
\* whether the call ends in success, BudgetExceededError, a validation error
\* or a backend error, changes the value or the expiry of a counter or
\* creates a key.
C7_DryRun ==
  [][(/\ now' = now
      /\ \/ calls[1].op = "check"
         \/ calls'[1].op = "check"
         \/ (calls[1].op = "idle" /\ last'.op = "check"))
     => store' = store]_vars

\* a check read three existing counters and passed
C7_Witness ==
  /\ last.op = "check" /\ last.outcome = "ok" /\ last.quiet
  /\ Len(last.trace) = 3
  /\ \A i \in 1..3 : last.items[i].key \in DOMAIN store

\* C8: TTL clamp.  The ttl record_spend passes to Ledger.increment is at
\* least one second for every clock reading.
C8_TtlAtLeastOne ==
  \A c \in {calls[1], last} : (c.op = "record" /\ c.ttl # None) => c.ttl[1] >= 1

\* C9: validation before I/O.  A call with a blank user_id, or a record_spend
\* with a non-finite amount, ends in a validation error before any read or
\* write of the ledger, and no counter changes.
C9_Rejected ==
  /\ \A c \in {calls[1], last} :
       ((c.op = "check" \/ c.op = "record") /\ (IsBlank(c.user) \/ ~isfinite(c.amount))) =>
         c.pc = "done" /\ c.outcome = "ValueError" /\ c.trace = <<>>
  /\ last.outcome = "ValueError" => last.trace = <<>>
C9_NoIO ==
  (now' = now /\ last'.outcome = "ValueError" /\ calls[1].op = "idle") =>
     store' = store /\ metrics' = metrics
C9_ValidationBeforeIO == []C9_Rejected /\ [][C9_NoIO]_vars

\* record_spend with amount NaN was turned away while counters exist
C9_Witness ==
  /\ last.op = "record" /\ last.outcome = "ValueError"
  /\ last.user \in ValidUsers /\ last.amount = NaN
  /\ last.trace = <<>>
  /\ store # EmptyStore

\* C10: optional project and model.  record_spend(user_id, amount) with
\* project_id and model absent is not turned away, and when the backend
\* serves it the call touches exactly the global and the user counter.
C10_OptionalContext ==
  (/\ last.op = "record" /\ last.user \in ValidUsers /\ isfinite(last.amount)
   /\ last.project = None /\ last.model = None)
  => /\ (last.outcome = "ok" \/ last.outcome = "RedisError")
     /\ Len(last.items) = 2

\* ------------------------------------------------- corrupt data in the store
\* payloads that are no number, as a test writes them with SET
Payloads == {"", "NOT_A_NUMBER"}
TextEntry(payload) == [isnum |-> FALSE, n |-> 0, s |-> payload, ttl |-> NoExpiry]
\* the keys of today's counters of user u1 in project p1
TodayKeys ==
  {get_keys_and_limits(config, now, RaceUser, RaceProject)[i].key : i \in 1..3}

\* redis.set(key, payload) by a third party
Corrupt(k, payload) ==
  /\ store' = Put(store, k, TextEntry(payload))
  /\ calls' = [q \in Procs |-> Disturbed(calls[q], Put(store, k, TextEntry(payload)))]
  /\ last' = Disturbed(last, Put(store, k, TextEntry(payload)))
  /\ UNCHANGED <<now, config, nwrites, nfaults, metrics, applied, expired>>

NextCorrupt ==
  \/ \E k \in TodayKeys, payload \in Payloads : Corrupt(k, payload)
  \/ \E est \in CheckEstimates : StartCheck(1, RaceUser, RaceProject, est)
  \/ CheckStep(1)

SpecCorrupt == Init /\ [][NextCorrupt]_vars

\* C11: corrupt data fails closed.  For every key present with a payload that
\* is no number (the empty string included) get_usage raises, and a
\* check_availability that read such a key has not returned success.
C11_CorruptFailsClosed ==
  /\ \A k \in DOMAIN store :
       ~store[k].isnum => Ledger_get_usage(store, k, FALSE).exc # "none"
  /\ (last.op = "check" /\ last.quiet /\ last.outcome = "ok") =>
       \A i \in 1..Len(last.items) :
         last.items[i].key \in DOMAIN store => store[last.items[i].key].isnum

\* ------------------------------------------------------ a clock that jumps
\* the machine's clock is set to another reading (clock skew, or a test
\* patching the date); the backend's own time does not move
SetClock(t) ==
  /\ t # now
  /\ now' = t
  /\ UNCHANGED <<store, config, calls, last, nwrites, nfaults, metrics, applied, expired>>

NextClock ==
  \/ \E t \in 0..MaxNow : SetClock(t)
  \/ \E a \in LedgerAmounts : StartRecord(1, RaceUser, a, RaceProject, RaceModel)
  \/ RecordStep(1)
  \/ Tick

SpecClock == Init /\ [][NextClock]_vars

\* the date a key is for
KeyDate(k) == k[Len(k)]

\* C12: day isolation.  A record_spend begun while the UTC date is D2 writes
\* only keys of D2: every counter of another date keeps its value and its
\* expiry, and the key written moves from its previous total by the amount,
\* also after the clock has jumped back to an earlier date.
C12_DayIsolation ==
  [][/\ (calls[1].pc = "idle" /\ calls'[1].op = "record") =>
          \A i \in 1..Len(calls'[1].items) :
            KeyDate(calls'[1].items[i].key) = get_date_str(now)
     /\ (calls[1].op = "record" /\ now' = now) =>
          LET c == calls[1]
              k == c.items[c.i].key
          IN  /\ \A i \in 1..Len(c.items) : KeyDate(c.items[i].key) = KeyDate(k)
              /\ \A x \in (DOMAIN store) \cup (DOMAIN store') :
                   KeyDate(x) # KeyDate(k) =>
                     x \in DOMAIN store /\ x \in DOMAIN store' /\ store'[x] = store[x]
              /\ (k \in DOMAIN store' /\ store' # store) =>
                   store'[k].n = Usage(k) + c.amount.v]_vars

\* the clock went to the second day and back: a spend recorded on the first
\* day after one recorded on the second, whose counters are intact
C12_Witness ==
  /\ last.op = "record" /\ last.outcome = "ok" /\ last.quiet
  /\ DayOf(now) = 0
  /\ \A i \in 1..3 : KeyDate(last.items[i].key) = Dates[1]
  /\ \A i \in 1..3 : last.items[i].key \in DOMAIN store
  /\ \E x \in DOMAIN store :
       KeyDate(x) = Dates[2] /\ x \in DOMAIN applied /\ store[x].n = applied[x]
                             /\ store[x].n # 0

\* ------------------------------------------------------------------ refunds
\* C13: refunds.  A negative amount lowers the counter by that amount, the
\* counter is not floored at zero, and a later check uses a negative usage as
\* it is: with usage below zero it passes exactly when usage + estimate does
\* not exceed the limit of any scope.
C13_Refunds ==
  /\ [](SettledCheck(last) /\ (\E i \in 1..Len(last.items) : Usage(last.items[i].key) < 0)
         /\ (\A i \in 1..Len(last.items) : Usage(last.items[i].key) < last.items[i].limit)
        => (last.outcome = "ok" <=>
              \A i \in 1..Len(last.items) :
                last.est <= 0 \/ Usage(last.items[i].key) + last.est <= last.items[i].limit))
  /\ [][(calls[1].op = "record" /\ calls[1].amount.v < 0 /\ now' = now /\ store' # store) =>
          LET k == calls[1].items[calls[1].i].key
          IN  k \in DOMAIN store' => store'[k].n = Usage(k) + calls[1].amount.v]_vars

\* every counter is below zero after a refund, and a check whose estimate
\* alone exceeds the user limit passed
C13_Witness ==
  /\ SettledCheck(last) /\ last.outcome = "ok"
  /\ last.est > config.daily_user_limit_usd
  /\ \A i \in 1..Len(last.items) :
       last.items[i].key \in DOMAIN store /\ store[last.items[i].key].n < 0

\* ------------------------------------------------ limits changed at run time
\* the values a limit is set to
LimitChoices == {1, InitUserLimit, InitGlobalLimit + 1}

\* manager.config.daily_<scope>_limit_usd = v, by the caller
SetLimit(scope, v) ==
  /\ config[scope] # v
  /\ config' = [config EXCEPT ![scope] = v]
  /\ UNCHANGED <<store, now, calls, last, nwrites, nfaults, metrics, applied, expired>>

NextConfig ==
  \/ \E scope \in DOMAIN config, v \in LimitChoices : SetLimit(scope, v)
  \/ \E est \in CheckEstimates : StartCheck(1, RaceUser, RaceProject, est)
  \/ CheckStep(1)
  \/ StartRecord(1, RaceUser, RaceAmount, RaceProject, RaceModel)
  \/ RecordStep(1)

SpecConfig == Init /\ [][NextConfig]_vars

\* the configured limit of the scope of an item
LimitOf(cfg, item) ==
  IF ScopeRank(item) = 1 THEN cfg.daily_global_limit_usd
  ELSE IF ScopeRank(item) = 2 THEN cfg.daily_project_limit_usd
  ELSE cfg.daily_user_limit_usd

\* C14: live limits.  Every check_availability reads the limits from the
\* config as it stands when the call begins, so a check that ended while
\* these limits still stand passed exactly when every scope passes under
\* the limits now configured, whatever they were before.
C14_LiveLimits ==
  /\ [][(calls[1].pc = "idle" /\ calls'[1].op = "check") =>
          \A i \in 1..Len(calls'[1].items) :
            calls'[1].items[i].limit = LimitOf(config, calls'[1].items[i])]_vars
  /\ [](/\ SettledCheck(last)
        /\ \A i \in 1..Len(last.items) : last.items[i].limit = LimitOf(config, last.items[i])
        => (last.outcome = "ok" <=>
              \A i \in 1..Len(last.items) :
                /\ Usage(last.items[i].key) < LimitOf(config, last.items[i])
                /\ (last.est = 0 \/
                    Usage(last.items[i].key) + last.est <= LimitOf(config, last.items[i]))))

\* the user limit was raised: a check passed that the limit of construction
\* would have refused
C14_Witness ==
  /\ SettledCheck(last) /\ last.outcome = "ok" /\ Len(last.items) = 3
  /\ config.daily_user_limit_usd > InitUserLimit
  /\ last.items[3].limit = config.daily_user_limit_usd
  /\ Usage(last.items[3].key) >= InitUserLimit

\* ---------------------------------------------------------- spend then block
\* the user's counter of the check stands at or above the user limit while
\* the scopes before it stand below theirs
UserSpent(c) ==
  /\ Len(c.items) >= 2
  /\ Usage(c.items[Len(c.items)].key) >= c.items[Len(c.items)].limit
  /\ \A i \in 1..(Len(c.items) - 1) : Usage(c.items[i].key) < c.items[i].limit

C16_LivesUntilMidnight ==
  /\ \A k \in expired : KeyDate(k) # get_date_str(now)
  /\ \A k \in DOMAIN applied :
       (KeyDate(k) = get_date_str(now) /\ calls[1].op # "record") => k \in DOMAIN store

CheckThenSpend(p) ==
  /\ calls[p].op = "check"
  /\ calls[p].pc = "run"
  /\ nwrites < MaxWrites
  /\ LET c == calls[p]
         r == Ledger_get_usage(store, c.items[c.i].key, FALSE)
         c2 == check_step(c, r)
         c0 == [IdleCall EXCEPT !.op = "record", !.user = c.user, !.amount = RaceAmount,
                                !.project = c.project, !.model = RaceModel]
     IN  /\ c2.pc = "done"
         /\ c2.outcome = "ok"
         /\ record_spend_invalid(c.user, RaceAmount, c.project, RaceModel) = <<>>
         /\ Step(p, [c0 EXCEPT !.pc = "run", !.i = 1,
                        !.items = get_keys_and_limits(config, now, c.user, c.project),
                        !.ttl = Some(get_ttl_seconds(now))],
                 r.st)
  /\ nwrites' = nwrites + 1
  /\ UNCHANGED <<now, config, nfaults, metrics, applied>>

NextRace ==
  \/ \E p \in Procs : StartCheck(p, RaceUser, RaceProject, RaceEstimate)
  \/ \E p \in Procs : CheckStep(p)
  \/ \E p \in Procs : CheckThenSpend(p)
  \/ \E p \in Procs : RecordStep(p)

SpecRace == Init /\ [][NextRace]_vars

\* C18: no reservation.  A check_availability takes no lock (its next read is
\* never held back by another caller's call) and reserves nothing (the
\* counters hold the recorded amounts and no estimate), so concurrent checks
\* pass or fail as one alone would on the usage they read and the spends that
\* follow can pass the limit; a check that ran after the spends, on a store
\* that stood still, raises exactly when a scope is at or over its limit.
C18_NoReservation ==
  /\ \A p \in Procs : (calls[p].op = "check" /\ calls[p].pc = "run") => ENABLED CheckStep(p)
  /\ \A k \in DOMAIN store : k \in DOMAIN applied /\ store[k].n = applied[k]
  /\ SettledCheck(last) => (last.outcome = "ok" <=> ViolatedScopes(last) = {})

\* two callers each passed their check before the other's spend had reached
\* the counters, both spent, the user's counter stands above the user limit,
\* and a check made afterwards was refused
C18_Witness ==
  /\ Len(metrics) = 2
  /\ \A p \in Procs : calls[p].pc = "idle"
  /\ SettledCheck(last) /\ last.outcome = "BudgetExceededError"
  /\ Usage(last.items[3].key) > last.items[3].limit

\* ------------------------------------------------------------------ metrics
\* a record_spend call ends in this step
RecordEnds == calls[1].op = "record" /\ calls'[1].pc = "idle" /\ last'.op = "record"

\* C19: metric on success only.  record_spend emits its metric event once,
\* in the step in which the increment of its last scope succeeded after all
\* the others had; a call that ends in an error, and every other step, emits
\* none.
C19_MetricOnSuccess ==
  [][/\ (RecordEnds /\ last'.outcome = "ok") =>
          /\ FailedAt(last') = {} /\ Len(last'.trace) = Len(last'.items)
          /\ Len(metrics') = Len(metrics) + 1
          /\ \A i \in 1..Len(metrics) : metrics'[i] = metrics[i]
          /\ metrics'[Len(metrics')].amount = calls[1].amount
     /\ ~(RecordEnds /\ last'.outcome = "ok") => metrics' = metrics]_vars

\* of two calls, one failed at an increment and one went through: one event
C19_Witness ==
  /\ last.op = "record" /\ last.outcome = "ok" /\ Len(last.trace) = 3
  /\ nwrites = 2 /\ nfaults = 1
  /\ Len(metrics) = 1
  /\ metrics[1].amount = last.amount

\* --------------------------------------------- the guard called on its own
\* BudgetGuard.record_spend up to its first await, called without the
\* manager's validation; project_id and model are Optional here
GuardStartRecord(p, user_id, amount, project_id, model) ==
  /\ calls[p].pc = "idle"
  /\ nwrites < MaxWrites
  /\ Step(p, [IdleCall EXCEPT !.op = "record", !.user = user_id, !.amount = amount,
                              !.project = project_id, !.model = model,
                              !.pc = "run", !.i = 1,
                              !.items = get_keys_and_limits(config, now, user_id, project_id),
                              !.ttl = Some(get_ttl_seconds(now))],
          store)
  /\ nwrites' = nwrites + 1
  /\ UNCHANGED <<now, config, nfaults, metrics, applied>>

NextGuard ==
  \/ \E a \in LedgerAmounts, pr \in GuardProjects, m \in GuardModels :
       GuardStartRecord(1, RaceUser, a, pr, m)
  \/ RecordStep(1)
  \/ Tick

SpecGuard == Init /\ [][NextGuard]_vars

\* C20: metric tags.  The metric event of a record_spend carries the amount
\* recorded, the model given or "unknown" when none was given, and the
\* project_id given or "unknown" when none was given.
C20_MetricTags ==
  (last.op = "record" /\ last.outcome = "ok" /\ metrics # <<>>) =>
    LET e == metrics[Len(metrics)]
    IN  /\ e.amount = last.amount
        /\ e.user = last.user
        /\ e.model = (IF last.model = None THEN <<"unknown">> ELSE last.model)
        /\ e.project = (IF last.project = None THEN <<"unknown">> ELSE last.project)

\* ------------------------------------------------- sync and async variants
\* on the store as it stands the two variants answer every call alike
C21_SameAnswers ==
  \A k \in LedgerKeys, f \in BOOLEAN :
    /\ SyncLedger_get_usage(store, k, f) = Ledger_get_usage(store, k, f)
    /\ \A a \in LedgerAmounts, t \in LedgerTtls :
         SyncLedger_increment(store, k, a, t, f) = Ledger_increment(store, k, a, t, f)
\* a call through one variant: the value returned, the error raised and the
\* store left behind are those the other variant gives for the same call
C21_SameEffect ==
  LET f == nfaults' # nfaults
      k == last'.items[1].key
      out(r) == IF r.exc = "none" THEN "ok" ELSE r.exc
      same(r) == store' = r.st /\ last'.ret = r.value /\ last'.outcome = out(r)
  IN  /\ (calls[1].pc = "idle" /\ now' = now /\ last'.op = "sync_increment") =>
           same(Ledger_increment(store, k, last'.amount, last'.ttl, f))
      /\ (calls[1].pc = "idle" /\ now' = now /\ last'.op = "sync_get_usage") =>
           same(Ledger_get_usage(store, k, f))
      /\ (calls[1].pc = "idle" /\ now' = now /\ last'.op = "get_usage") =>
           same(SyncLedger_get_usage(store, k, f))
      /\ (calls[1].op = "increment" /\ now' = now) =>
           same(SyncLedger_increment(store, k, calls[1].amount, calls[1].ttl, f))
\* what either variant reads is the sum of what both variants wrote
C21_SeenByBoth ==
  \A k \in LedgerKeys :
    (k \notin expired /\ NoIncrementPending(k)) =>
      /\ SyncLedger_get_usage(store, k, FALSE).value = Sum(k)
      /\ Ledger_get_usage(store, k, FALSE).value = Sum(k)

\* C21: sync/async equivalence.  On a shared backend SyncRedisLedger and
\* RedisLedger give, for every get_usage and increment, the same returned
\* value, the same error and the same counter value and expiry afterwards, so
\* a spend recorded through one variant is read through the other.
C21_SyncAsyncEquivalence ==
  [](C21_SameAnswers /\ C21_SeenByBoth) /\ [][C21_SameEffect]_vars

\* a spend of 2 went through the sync variant and a refund of 1 through the
\* async one: the async get_usage returned 1
C21_Witness ==
  /\ last.op = "get_usage" /\ last.outcome = "ok" /\ last.ret = 1
  /\ Sum(SyncTag(<<"k">>)) = 2 /\ Sum(<<"k">>) = 1
  /\ <<"k">> \notin expired

\* ------------------------------------------------------------------ no retry
\* the round trips of a call of the guard: one for each scope in turn, none
\* twice, and a failed one is the last and is what the caller gets
C22_OncePerScope ==
  \A c \in {calls[1], last} :
    (c.op = "check" \/ c.op = "record") =>
      /\ Len(c.items) <= 3
      /\ Len(c.trace) <= Len(c.items)
      /\ \A i \in 1..Len(c.trace) : c.trace[i].key = c.items[i].key
      /\ \A i, j \in 1..Len(c.trace) : i # j => c.trace[i].key # c.trace[j].key
      /\ c.pc = "run" => c.i = Len(c.trace) + 1
      /\ \A i \in FailedAt(c) :
           i = Len(c.trace) /\ c.pc = "done" /\ c.outcome = "RedisError"
\* every step of a call is one more round trip, and a record_spend moves a
\* counter by its amount in that round trip alone
C22_OneMore ==
  ((calls[1].op = "check" \/ calls[1].op = "record") /\ now' = now) =>
    LET c == calls[1]
        c2 == IF calls'[1].op = c.op THEN calls'[1] ELSE last'
    IN  /\ c2.op = c.op
        /\ Len(c2.trace) = Len(c.trace) + 1
        /\ \A k \in DOMAIN store' :
             Usage(k) # store'[k].n =>
               /\ c.op = "record"
               /\ k = c2.trace[Len(c2.trace)].key
               /\ store'[k].n = Usage(k) + c.amount.v

\* C22: no automatic retry.  Within one record_spend each derived scope is
\* incremented at most once and within one check_availability each scope is
\* read at most once; a failure ends the call with the error, is not retried
\* and is not replaced by a value, so no call applies its amount twice to a
\* counter and every call ends after at most three ledger operations.
C22_NoRetry == []C22_OncePerScope /\ [][C22_OneMore]_vars

\* the first increment of a record_spend failed: the call ended after that
\* one round trip and no counter exists
C22_Witness ==
  /\ last.op = "record" /\ last.outcome = "RedisError"
  /\ Len(last.items) = 3 /\ Len(last.trace) = 1 /\ ~last.trace[1].ok
  /\ store = EmptyStore /\ nwrites = 1 /\ nfaults = 1

\* -------------------------------------------------------------------- reads
\* a get_usage that the backend served: 0 for an absent key, the stored
\* value for a present one, and the store is as it was
C23_Read ==
  (calls[1].pc = "idle" /\ now' = now /\ last'.op = "get_usage") =>
    LET k == last'.items[1].key
    IN  /\ store' = store
        /\ last'.outcome = "ok" =>
             last'.ret = (IF k \in DOMAIN store THEN store[k].n ELSE 0)
\* an increment has just returned
IncrementReturns ==
  calls[1].op = "increment" /\ now' = now /\ last'.op = "increment" /\ last'.outcome = "ok"

C24_ShortCircuit ==
  (last.op = "check" /\ last.outcome = "BudgetExceededError") =>
    LET n == Len(last.trace)
    IN  /\ n >= 1 /\ n <= Len(last.items)
        /\ \A i \in 1..n : last.trace[i].ok /\ last.trace[i].key = last.items[i].key
        /\ last.excScope = last.items[n].scope
        /\ last.excScope[1] = "Global" => n = 1
        /\ last.excScope[1] = "Project" => n = 2
        /\ last.quiet =>
             /\ ScopeViolated(last.items[n], last.est)
             /\ \A i \in 1..(n - 1) : ~ScopeViolated(last.items[i], last.est)

\* the estimate fits into the global limit and not into the project limit:
\* the check read global and project, raised, and never read the user
C24_Witness ==
  /\ last.op = "check" /\ last.outcome = "BudgetExceededError" /\ last.quiet
  /\ Len(last.items) = 3 /\ Len(last.trace) = 2
  /\ last.excScope = <<"Project", "p1">>
  /\ ScopeViolated(last.items[3], last.est)

\* ---------------------------------------------- recording is not enforcing
\* a record_spend never ends in BudgetExceededError, and one that passed the
\* validation and whose round trips were all served went through every scope
C25_NeverRefused ==
  \A c \in {calls[1], last} :
    c.op = "record" =>
      /\ c.outcome # "BudgetExceededError"
      /\ (c.pc = "done" /\ c.outcome # "ValueError" /\ FailedAt(c) = {}) =>
           c.outcome = "ok" /\ Len(c.trace) = Len(c.items)
\* an increment of a record_spend on a scope that is exhausted, or that the
\* amount takes over the limit: unless the round trip fails the counter
\* moves by the amount and the call goes on
C25_OverLimit ==
  LET c == calls[1]
      item == c.items[c.i]
      c2 == IF calls'[1].op = "record" THEN calls'[1] ELSE last'
  IN  (/\ c.op = "record" /\ now' = now /\ nfaults' = nfaults
       /\ (Usage(item.key) >= item.limit \/ Usage(item.key) + c.amount.v > item.limit))
      => /\ c2.outcome = (IF c.i = Len(c.items) THEN "ok" ELSE "none")
         /\ item.key \in DOMAIN store' => store'[item.key].n = Usage(item.key) + c.amount.v
         /\ item.key \notin DOMAIN store' => c.ttl[1] <= 0

\* C25: record_spend does not enforce limits.  It reads no counter and no
\* limit: every derived scope is incremented by the amount also when that
\* takes usage over the limit or the scope is exhausted already, and the call
\* never raises BudgetExceededError.
C25_RecordDoesNotEnforce == []C25_NeverRefused /\ [][C25_OverLimit]_vars

\* a second spend was recorded for a user whose counter stood at the limit:
\* the user's counter is over the limit, global at its limit
C25_Witness ==
  /\ last.op = "record" /\ last.outcome = "ok" /\ last.quiet /\ Len(last.items) = 3
  /\ nwrites = 2 /\ Len(metrics) = 2
  /\ Usage(last.items[3].key) > last.items[3].limit
  /\ Usage(last.items[3].key) - last.amount.v >= last.items[3].limit
  /\ Usage(last.items[1].key) >= last.items[1].limit

\* ----------------------------------------------------------- scope derivation
\* a limit raised above all the limits of construction
RaisedLimit == InitGlobalLimit + 1

\* the limits a deployment is constructed with
ScopeLimits == {InitUserLimit, RaisedLimit}
\* a guard constructed with any of these limits, at any reading of the clock
InitScopes ==
  /\ store = EmptyStore
  /\ now \in 0..MaxNow
  /\ config \in [{"daily_global_limit_usd", "daily_project_limit_usd",
                   "daily_user_limit_usd"} -> ScopeLimits]
  /\ calls = [p \in Procs |-> IdleCall]
  /\ last = IdleCall
  /\ nwrites = 0
  /\ nfaults = 0
  /\ metrics = <<>>
  /\ applied = EmptyStore
  /\ expired = {}

\* the guard called by the manager's check_availability and on its own for
\* record_spend, with and without a project
NextScopes ==
  \/ \E pr \in ScopeProjects : StartCheck(1, RaceUser, pr, RaceEstimate)
  \/ CheckStep(1)
  \/ \E pr \in ScopeProjects : GuardStartRecord(1, RaceUser, RaceAmount, pr, RaceModel)
  \/ RecordStep(1)

SpecScopes == InitScopes /\ [][NextScopes]_vars

\* the key the specification gives: spend:v1:<kind>:[<id>:]<date>
ScopeKey(kind, id, date) == <<"spend", "v1", kind>> \o id \o <<date>>
\* a project_id is given: it is a string and not the empty one
Given(project_id) == project_id # None /\ project_id # <<"">>
\* the keys and limits the specification derives, in its order
DerivedScopes(cfg, date, user_id, project_id) ==
  IF Given(project_id)
    THEN << <<ScopeKey("global", <<>>, date), cfg.daily_global_limit_usd>>,
            <<ScopeKey("project", project_id, date), cfg.daily_project_limit_usd>>,
            <<ScopeKey("user", user_id, date), cfg.daily_user_limit_usd>> >>
    ELSE << <<ScopeKey("global", <<>>, date), cfg.daily_global_limit_usd>>,
            <<ScopeKey("user", user_id, date), cfg.daily_user_limit_usd>> >>
KeysAndLimits(items) == [i \in 1..Len(items) |-> <<items[i].key, items[i].limit>>]

NextReset ==
  \/ \E t \in 0..MaxNow : SetClock(t)
  \/ StartRecord(1, RaceUser, RaceAmount, RaceProject, RaceModel)
  \/ RecordStep(1)
  \/ \E est \in CheckEstimates : StartCheck(1, RaceUser, RaceProject, est)
  \/ CheckStep(1)

SpecReset == Init /\ [][NextReset]_vars

\* the UTC date of the clock
Today == Dates[DayOf(now) + 1]
\* a counter of another date stands at or over the limit the check has for its kind
SpentOnOtherDay(c) ==
  \E k \in DOMAIN store, i \in 1..Len(c.items) :
    /\ KeyDate(k) # KeyDate(c.items[i].key)
    /\ SubSeq(k, 1, Len(k) - 1) = SubSeq(c.items[i].key, 1, Len(k) - 1)
    /\ store[k].n >= c.items[i].limit

\* C27: daily reset by key.  The date is taken from the clock on every
\* check_availability and record_spend, so every call works on the keys of
\* the date at which it begins, and a check on a date whose counters are
\* below their limits passes whatever the counters of other dates hold:
\* a user who reached the limit on D1 passes on D2 while the D1 counter is
\* still there.
C27_DailyReset ==
  /\ [][(calls[1].pc = "idle" /\ calls'[1].pc = "run") =>
          \A i \in 1..Len(calls'[1].items) : KeyDate(calls'[1].items[i].key) = Today]_vars
  /\ [](SettledCheck(last) =>
          (last.outcome = "ok" <=>
             \A i \in 1..Len(last.items) :
               /\ Usage(last.items[i].key) < last.items[i].limit
               /\ (last.est > 0 => Usage(last.items[i].key) + last.est <= last.items[i].limit)))
  /\ [](SettledCheck(last) /\ (\A i \in 1..Len(last.items) : last.items[i].key \notin DOMAIN store)
          /\ (\A i \in 1..Len(last.items) : last.est <= last.items[i].limit)
        => last.outcome = "ok")

\* the user's and the global counter of the first day stand at their limits
\* and are still there; on the second day the check passed
C27_Witness ==
  /\ SettledCheck(last) /\ last.outcome = "ok" /\ last.est > 0
  /\ DayOf(now) = 1
  /\ \A i \in 1..Len(last.items) : KeyDate(last.items[i].key) = Dates[2]
  /\ SpentOnOtherDay(last)
  /\ <<"spend", "v1", "user", "u1", "2025-01-01">> \in DOMAIN store
  /\ store[<<"spend", "v1", "user", "u1", "2025-01-01">>].n >= config.daily_user_limit_usd

\* ------------------------------------------------------ increment without ttl
\* C28: increment without ttl.  increment(key, amount) with no ttl adds the
\* amount and returns the new value and never sets, changes or removes the
\* expiry: a key it creates has none, a key with a running expiry keeps it,
\* and no key is deleted.
C28_NoTtlNoExpiry ==
  [][\A p \in Procs :
       (/\ calls[p].op = "increment" /\ calls[p].ttl = None
        /\ calls'[p].pc = "idle" /\ last'.outcome = "ok") =>
         LET k == calls[p].items[1].key
         IN  /\ last'.ret = Usage(k) + calls[p].amount.v
             /\ k \in DOMAIN store'
             /\ store'[k].n = last'.ret
             /\ store'[k].ttl = (IF k \in DOMAIN store THEN store[k].ttl ELSE NoExpiry)
             /\ expired' = expired]_vars

\* a key created without ttl has no expiry after two increments
C28_Witness ==
  /\ last.op = "increment" /\ last.outcome = "ok" /\ last.ttl = None
  /\ last.prettl = NoExpiry /\ nwrites = 2 /\ nfaults = 0
  /\ \A p \in Procs : calls[p].pc = "idle"
  /\ <<"k">> \in DOMAIN store /\ store[<<"k">>].ttl = NoExpiry
  /\ store[<<"k">>].n = 4 /\ last.ret = 4

\* ------------------------------------------------ spending on corrupt data
\* a third party overwrites counters of today while spends are recorded
NextCorruptSpend ==
  \/ \E k \in TodayKeys, payload \in Payloads : Corrupt(k, payload)
  \/ StartRecord(1, RaceUser, RaceAmount, RaceProject, RaceModel)
  \/ RecordStep(1)

SpecCorruptSpend == Init /\ [][NextCorruptSpend]_vars

\* what a key holds after the third party wrote to it
CorruptEntries == {TextEntry(payload) : payload \in Payloads}
GarbageEntry == TextEntry("NOT_A_NUMBER")
\* this step is an increment of the record_spend in progress
IncrementTaken ==
  /\ calls[1].op = "record"
  /\ (IF calls'[1].op = "record" THEN calls'[1] ELSE last').trace # calls[1].trace
\* an increment on a key whose payload is no number: the call ends in the
\* backend's error and nothing in the store, the totals or the metrics moves
C29_Refused ==
  LET k == calls[1].items[calls[1].i].key
  IN  (IncrementTaken /\ k \in DOMAIN store /\ ~store[k].isnum) =>
        /\ store' = store
        /\ calls'[1].pc = "idle" /\ last'.outcome = "RedisError"
        /\ ~last'.trace[Len(last'.trace)].ok
        /\ metrics' = metrics /\ applied' = applied
\* what was incremented stays: a counter that still holds a number holds the
\* sum of the increments that returned, and a call that failed without a
\* communication fault failed on a key that holds no number, after the
\* increments before it were served
C29_Committed ==
  /\ \A k \in DOMAIN store : store[k].isnum => store[k].n = Sum(k)
  /\ \A k \in DOMAIN applied : k \in DOMAIN store
  /\ (last.op = "record" /\ last.outcome = "RedisError" /\ nfaults = 0) =>
       LET n == Len(last.trace)
       IN  /\ n >= 1
           /\ last.items[n].key \in DOMAIN store
           /\ store[last.items[n].key] \in CorruptEntries
           /\ \A i \in 1..(n - 1) :
                last.trace[i].ok /\ last.items[i].key \in DOMAIN applied

\* C29: increment on a corrupt counter.  When the payload of a key is no
\* number, increment raises a backend error and leaves the payload and the
\* expiry of the key as they were; record_spend lets the error through, and
\* the scopes incremented before that key stay committed.
C29_CorruptIncrement == []C29_Committed /\ [][C29_Refused]_vars

\* the project counter holds text: the spend reached the global counter,
\* failed on the project, left the text without expiry and never reached the user
C29_Witness ==
  /\ last.op = "record" /\ last.outcome = "RedisError" /\ last.quiet
  /\ nfaults = 0 /\ Len(last.trace) = 2
  /\ last.items[1].key \in DOMAIN store
  /\ store[last.items[1].key].isnum
  /\ store[last.items[1].key].n = last.amount.v
  /\ store[last.items[2].key] = GarbageEntry
  /\ last.items[3].key \notin DOMAIN store

\* ------------------------------------- the standalone coreason-budget package
\* (src/coreason-budget: BudgetManager over its own RedisLedger, no guard)

\* the cost of a call to the standalone record_spend
StandaloneCosts == {Fin(2), Fin(3)}

\* BudgetConfig of the standalone package, scaled like the limits above
StandaloneConfig ==
  [global_daily_limit_usd |-> InitGlobalLimit,
   default_daily_project_limit_usd |-> InitProjectLimit,
   default_daily_user_limit_usd |-> InitUserLimit]

\* _get_midnight_timestamp: the next UTC midnight, in ticks
get_midnight_timestamp(t) == (DayOf(t) + 1) * DaySeconds * 2

\* EXPIREAT: a timestamp that is not in the future deletes the key
RedisEXPIREAT(st, k, timestamp, t) ==
  IF timestamp <= t THEN Del(st, k)
  ELSE Put(st, k, [st[k] EXCEPT !.ttl = timestamp - t])

\* the script of the standalone RedisLedger.increment
Standalone_script(st, k, amount, t) ==
  LET r == RedisINCRBYFLOAT(st, k, amount)
  IN  IF r.err THEN r
      ELSE [err |-> FALSE,
            st |-> IF RedisTTL(r.st, k) = NoExpiry
                     THEN RedisEXPIREAT(r.st, k, get_midnight_timestamp(t), t)
                     ELSE r.st,
            value |-> r.value]

\* the standalone RedisLedger.increment: no handler, the client's error
\* reaches the caller
Standalone_increment(st, k, amount, t, fault) ==
  IF fault THEN [exc |-> "RedisError", st |-> st, value |-> 0]
  ELSE LET r == Standalone_script(st, k, amount, t)
       IN  IF r.err THEN [exc |-> "RedisError", st |-> st, value |-> 0]
           ELSE [exc |-> "none", st |-> r.st, value |-> r.value]

\* the standalone RedisLedger.get_current_usage
Standalone_get_current_usage(st, k, fault) ==
  IF fault THEN [exc |-> "RedisError", value |-> 0, st |-> st]
  ELSE [exc |-> float_or_zero(RedisGET(st, k)).exc,
        value |-> float_or_zero(RedisGET(st, k)).value, st |-> st]

\* the keys BudgetManager.check_availability and record_spend go through,
\* in the order of their statements: global, user, then project if given
Standalone_scopes(cfg, t, user_id, project_id) ==
  <<[key |-> <<"spend", "v1", "global", get_date_str(t)>>,
     limit |-> cfg.global_daily_limit_usd, scope |-> <<"Global">>],
    [key |-> <<"spend", "v1", "user">> \o user_id \o <<get_date_str(t)>>,
     limit |-> cfg.default_daily_user_limit_usd, scope |-> <<"User">> \o user_id]>>
  \o (IF Truthy(project_id)
        THEN <<[key |-> <<"spend", "v1", "project">> \o project_id \o <<get_date_str(t)>>,
                limit |-> cfg.default_daily_project_limit_usd,
                scope |-> <<"Project">> \o project_id]>>
        ELSE <<>>)

\* one read of the standalone check_availability and its test: spend >= limit
Standalone_check_step(c, r) ==
  LET item == c.items[c.i]
  IN  IF r.exc # "none" THEN Raise(c, r.exc, <<>>, 0)
      ELSE IF r.value >= item.limit
        THEN Raise(c, "BudgetExceededError", item.scope, item.limit)
      ELSE IF c.i = Len(c.items) THEN [c EXCEPT !.pc = "done", !.outcome = "ok"]
      ELSE [c EXCEPT !.i = @ + 1]

\* the Metric line of the standalone record_spend
Standalone_metric(c) ==
  [amount |-> c.amount,
   model |-> IF Truthy(c.model) THEN c.model ELSE <<"unknown">>,
   project |-> IF Truthy(c.project) THEN c.project ELSE <<"none">>]

InitStandalone ==
  /\ store = EmptyStore
  /\ now = 0
  /\ config = StandaloneConfig
  /\ calls = [p \in Procs |-> IdleCall]
  /\ last = IdleCall
  /\ nwrites = 0
  /\ nfaults = 0
  /\ metrics = <<>>
  /\ applied = EmptyStore
  /\ expired = {}

\* BudgetManager.check_availability of the standalone package up to its
\* first await
Standalone_StartCheck(p, user_id, project_id) ==
  /\ calls[p].pc = "idle"
  /\ Step(p, [IdleCall EXCEPT !.op = "check", !.user = user_id, !.project = project_id,
                              !.pc = "run", !.i = 1,
                              !.items = Standalone_scopes(config, now, user_id, project_id)],
          store)
  /\ UNCHANGED <<now, config, nwrites, nfaults, metrics, applied>>

\* one await of get_current_usage and the test that follows
Standalone_CheckStep(p) ==
  /\ calls[p].op = "check"
  /\ calls[p].pc = "run"
  /\ \E fault \in Faults :
       LET c == calls[p]
           r == Standalone_get_current_usage(store, c.items[c.i].key, fault)
       IN  Step(p, Logged(Standalone_check_step(c, r), c.items[c.i].key, ~fault), r.st)
           /\ Count(fault)
  /\ UNCHANGED <<now, config, nwrites, metrics, applied>>

\* BudgetManager.record_spend of the standalone package up to its first await
Standalone_StartRecord(p, user_id, cost, project_id, model) ==
  /\ calls[p].pc = "idle"
  /\ nwrites < MaxWrites
  /\ Step(p, [IdleCall EXCEPT !.op = "record", !.user = user_id, !.amount = cost,
                              !.project = project_id, !.model = model,
                              !.pc = "run", !.i = 1,
                              !.items = Standalone_scopes(config, now, user_id, project_id)],
          store)
  /\ nwrites' = nwrites + 1
  /\ UNCHANGED <<now, config, nfaults, metrics, applied>>

\* one await of increment in the standalone record_spend; the Metric line
\* after the last
Standalone_RecordStep(p) ==
  /\ calls[p].op = "record"
  /\ calls[p].pc = "run"
  /\ \E fault \in Faults :
       LET c == calls[p]
           k == c.items[c.i].key
           r == Standalone_increment(store, k, c.amount, now, fault)
           c2 == Logged(record_step(c, r), k, r.exc = "none")
       IN  /\ Step(p, c2, r.st)
           /\ Count(fault)
           /\ metrics' = IF c2.outcome = "ok" THEN Append(metrics, Standalone_metric(c))
                         ELSE metrics
           /\ applied' = IF r.exc = "none" THEN Add(applied, k, c.amount.v) ELSE applied
  /\ UNCHANGED <<now, config, nwrites>>

NextStandalone ==
  \/ \E pr \in GuardProjects : Standalone_StartCheck(1, RaceUser, pr)
  \/ Standalone_CheckStep(1)
  \/ \E a \in StandaloneCosts, pr \in GuardProjects, m \in GuardModels :
       Standalone_StartRecord(1, RaceUser, a, pr, m)
  \/ Standalone_RecordStep(1)
  \/ Tick

SpecStandalone == InitStandalone /\ [][NextStandalone]_vars

\* the kind of scope a key is for
KeyKind(k) == k[3]

\* C30: in the standalone package check_availability and record_spend visit
\* the scopes in the order Global -> Project -> User: with global under its
\* limit and project and user both exhausted the error names the project,
\* and when the increment of the project fails the user's counter has not
\* been incremented by the call.
C30_StandaloneOrder ==
  /\ \A c \in {calls[1], last} :
       (c.op = "check" \/ c.op = "record") =>
         \A i, j \in 1..Len(c.items) : i < j => ScopeRank(c.items[i]) < ScopeRank(c.items[j])
  /\ (/\ SettledCheck(last) /\ Len(last.items) = 3
      /\ \A i \in 1..3 :
           KeyKind(last.items[i].key) = "global" <=>
             Usage(last.items[i].key) < last.items[i].limit)
     => last.outcome = "BudgetExceededError" /\ last.excScope[1] = "Project"
  /\ (/\ last.op = "record" /\ last.outcome = "RedisError"
      /\ KeyKind(last.trace[Len(last.trace)].key) = "project")
     => \A i \in 1..Len(last.trace) : KeyKind(last.trace[i].key) # "user"

\* ------------------------------------------------------ the HTTP server
\* (server.py: the FastAPI application over BudgetManager)

\* the X-User-Context header of a request: absent, empty, text that is no
\* JSON, and the JSON of a UserContext with its user_id
HeaderInvalid == <<"invalid-json">>
ContextHeader(user_id) == <<"ctx">> \o user_id
Headers ==
  {None, <<"">>, HeaderInvalid} \cup {ContextHeader(u) : u \in {RaceUser, <<"">>}}

\* UserContext.model_validate_json: the user_id of the context, or a failure
model_validate_json(header) ==
  IF header[1] = "ctx" THEN [exc |-> "none", user_id |-> Tail(header)]
  ELSE [exc |-> "ValidationError", user_id |-> None]

\* get_user_context: the context of the header, or HTTPException 401 (the
\* application installs no middleware that sets request.state.user_context)
get_user_context(header) ==
  IF Truthy(header)
    THEN IF model_validate_json(header).exc = "none"
           THEN [status |-> 200, user_id |-> model_validate_json(header).user_id,
                 detail |-> <<>>]
           ELSE [status |-> 401, user_id |-> None, detail |-> <<"Invalid User Context">>]
    ELSE [status |-> 401, user_id |-> None, detail |-> <<"Missing User Context">>]

\* the parameters of BudgetManager.check_availability, and those without default
CheckAvailabilityParams == {"user_id", "project_id", "estimated_cost"}
CheckAvailabilityRequired == {"user_id"}
\* the keywords check_budget calls it with
CheckBudgetKeywords == {"user_context", "project_id", "estimated_cost"}

\* Python's binding of a call by keywords: TypeError for a keyword that is no
\* parameter and for a required parameter that is not given
Binds(keywords, params, required) == keywords \subseteq params /\ required \subseteq keywords

\* the answer of check_budget for the way the awaited call ended: its two
\* except clauses, and the framework's 500 for what they let through
check_budget_status(outcome) ==
  IF outcome = "ok" THEN 200
  ELSE IF outcome = "BudgetExceededError" THEN 429
  ELSE IF outcome = "ValueError" THEN 400
  ELSE 500

\* the result of the manager's check run to its end on a store that no one
\* else touches, from item i on
RECURSIVE RunCheck(_, _)
RunCheck(c, st) ==
  IF c.pc = "done" THEN c
  ELSE RunCheck(Logged(check_step(c, Ledger_get_usage(st, c.items[c.i].key, FALSE)),
                       c.items[c.i].key, TRUE), st)

\* POST /check: the dependency get_user_context, then check_budget
CheckBudget(p, header, project_id, estimated_cost) ==
  /\ calls[p].pc = "idle"
  /\ LET ctx == get_user_context(header)
         c0 == [IdleCall EXCEPT !.op = "http_check", !.user = ctx.user_id,
                                !.project = project_id, !.est = estimated_cost]
         bad == check_availability_invalid(ctx.user_id)
         c1 == IF ctx.status = 401
                 THEN [Raise(c0, "HTTPException", ctx.detail, 0) EXCEPT !.ret = 401]
               ELSE IF ~Binds(CheckBudgetKeywords, CheckAvailabilityParams,
                              CheckAvailabilityRequired)
                 THEN Raise(c0, "TypeError", <<>>, 0)
               ELSE IF bad # <<>> THEN Raise(c0, "ValueError", bad, 0)
               ELSE RunCheck([c0 EXCEPT !.pc = "run", !.i = 1,
                                !.items = get_keys_and_limits(config, now, ctx.user_id,
                                                              project_id)], store)
     IN  Step(p, IF ctx.status = 401 THEN c1
                 ELSE [c1 EXCEPT !.ret = check_budget_status(c1.outcome)], store)
  /\ UNCHANGED <<now, config, nwrites, nfaults, metrics, applied>>

\* requests to /check while spends are recorded through the manager
NextServer ==
  \/ \E h \in Headers, pr \in GuardProjects, est \in CheckEstimates : CheckBudget(1, h, pr, est)
  \/ StartRecord(1, RaceUser, RaceAmount, RaceProject, RaceModel)
  \/ RecordStep(1)
  \/ Tick

SpecServer == Init /\ [][NextServer]_vars

\* the scopes of a request's user and project on the store as it stands
RequestScopes(c) == get_keys_and_limits(config, now, c.user, c.project)

\* C31: the /check endpoint.  A request without a parseable X-User-Context
\* is answered 401; otherwise the answer is {"status": "allowed"} (200)
\* exactly when the manager's check_availability returns, 400 when it raises
\* the validation ValueError and 429 when it raises BudgetExceededError, so
\* no failure is answered as allowed.
C31_CheckEndpoint ==
  (last.op = "http_check" /\ last.quiet) =>
    /\ last.user = None <=> last.ret = 401
    /\ (last.user # None /\ IsBlank(last.user)) => last.ret = 400
    /\ (last.user # None /\ ~IsBlank(last.user)) =>
         IF \E i \in 1..Len(RequestScopes(last)) :
              ScopeViolated(RequestScopes(last)[i], last.est)
           THEN last.ret = 429
           ELSE last.ret = 200

\* checks with estimates of every sign between recorded spends
NextEstimates ==
  \/ \E pr \in GuardProjects, est \in Estimates : StartCheck(1, RaceUser, pr, est)
  \/ CheckStep(1)
  \/ StartRecord(1, RaceUser, RaceAmount, RaceProject, RaceModel)
  \/ RecordStep(1)
  \/ Tick

SpecEstimates == Init /\ [][NextEstimates]_vars

\* the check c made again from its first scope with the estimate est, on
\* the counters as they stand
Rechecked(c, est) ==
  RunCheck([c EXCEPT !.pc = "run", !.i = 1, !.est = est, !.outcome = "none",
                     !.excScope = <<>>, !.excLimit = 0], store)

\* C32: monotonicity of the check.  On the same counters and limits, a check
\* that raised for an estimate raises for every estimate that is not
\* smaller, and an estimate that is zero or negative has the outcome of the
\* estimate 0: the same scope raised, or none.
C32_Monotone ==
  SettledCheck(last) =>
    \A est \in Estimates :
      /\ (last.outcome = "BudgetExceededError" /\ est >= last.est)
           => Rechecked(last, est).outcome = "BudgetExceededError"
      /\ (last.est <= 0 /\ est <= 0)
           => /\ Rechecked(last, est).outcome = last.outcome
              /\ Rechecked(last, est).excScope = last.excScope

\* a negative estimate met an exhausted scope and the check raised
C32_Witness ==
  /\ SettledCheck(last) /\ last.est < 0 /\ last.outcome = "BudgetExceededError"
  /\ \E i \in 1..Len(last.items) : Usage(last.items[i].key) = last.items[i].limit

\* C33: one date per call.  All keys one check_availability reads and all
\* keys one record_spend increments carry the date string the call derived
\* when it began, also when UTC midnight passes while the call is in
\* progress: no call splits its increments between two days.
C33_OneDatePerCall ==
  \A c \in {calls[1], last} :
    (c.op = "check" \/ c.op = "record") =>
      /\ \A i \in 1..Len(c.trace) : c.trace[i].key = c.items[i].key
      /\ \A i, j \in 1..Len(c.trace) : KeyDate(c.trace[i].key) = KeyDate(c.trace[j].key)

\* a record_spend begun on the first day made its last increment on the
\* second: the counter it wrote then carries the first day's date
C33_Witness ==
  /\ last.op = "record" /\ last.outcome = "ok" /\ last.quiet
  /\ DayOf(now) = 1
  /\ Len(last.trace) = 3
  /\ KeyDate(last.trace[3].key) = Dates[1]
  /\ last.trace[3].key \in DOMAIN store

\* C34: no immortal counters.  In every reachable state every counter that
\* record_spend created and that exists in the store has an expiry that is
\* running; no increment of record_spend leaves a key without expiry.
C34_NoImmortalCounter ==
  \A k \in DOMAIN store :
    k \in DOMAIN applied => store[k].ttl # NoExpiry /\ store[k].ttl > 0

\* a record_spend went through and its counters are in the store, each with
\* its expiry
C34_Witness ==
  /\ last.op = "record" /\ last.outcome = "ok" /\ last.quiet
  /\ \A i \in 1..Len(last.items) :
       /\ last.items[i].key \in DOMAIN store
       /\ last.items[i].key \in DOMAIN applied
       /\ store[last.items[i].key].ttl > 0

\* ------------------------------------------------ spends of several callers
\* two users and two projects, amounts that are not negative
ConserveUsers == {<<"u1">>, <<"u2">>}
ConserveProjects == {<<"p1">>, <<"p2">>}
ConserveAmounts == {Fin(1), Fin(2)}

NextConserve ==
  \/ \E p \in Procs, u \in ConserveUsers, a \in ConserveAmounts, pr \in ConserveProjects :
       StartRecord(p, u, a, pr, RaceModel)
  \/ \E p \in Procs : RecordStep(p)
  \/ Tick

SpecConserve == Init /\ [][NextConserve]_vars

\* the dates the clock can show
DatesSeen == {Dates[d + 1] : d \in 0..DayOf(MaxNow)}

\* the sum of the counters of all users for a date
RECURSIVE UserTotal(_, _)
UserTotal(users, date) ==
  IF users = {} THEN 0
  ELSE LET u == CHOOSE x \in users : TRUE
       IN  Usage(ScopeKey("user", u, date)) + UserTotal(users \ {u}, date)

\* the counter of a project, over the dates
RECURSIVE ProjectTotal(_, _)
ProjectTotal(project_id, dates) ==
  IF dates = {} THEN 0
  ELSE LET d == CHOOSE x \in dates : TRUE
       IN  Usage(ScopeKey("project", project_id, d)) + ProjectTotal(project_id, dates \ {d})

\* the amounts of the spends recorded with a project, by the METRIC lines of
\* the calls that returned
RECURSIVE RecordedWith(_, _)
RecordedWith(project_id, events) ==
  IF events = <<>> THEN 0
  ELSE (IF Head(events).project = project_id THEN Head(events).amount.v ELSE 0)
       + RecordedWith(project_id, Tail(events))

\* C35: cross-scope conservation.  While the backend has removed no key: once every
\* record_spend has returned and none met a backend failure, the global
\* counter of a date is the sum of the user counters of that date and the
\* counter of a project is the sum of the amounts recorded with it; and with
\* amounts that are not negative the global counter is at least the sum of
\* the user counters in every state, with calls in flight and after partial
\* failures.
C35_Conservation ==
  expired = {} =>
    /\ \A d \in DatesSeen :
         Usage(ScopeKey("global", <<>>, d)) >= UserTotal(ConserveUsers, d)
    /\ (nfaults = 0 /\ \A p \in Procs : calls[p].pc = "idle") =>
         /\ \A d \in DatesSeen :
              Usage(ScopeKey("global", <<>>, d)) = UserTotal(ConserveUsers, d)
         /\ \A pr \in ConserveProjects :
              ProjectTotal(pr, DatesSeen) = RecordedWith(pr, metrics)

\* ------------------------------------------------- identities with colons
\* ids that are a prefix of one another once split at ":", used both as
\* users and as projects
IsoUsers == {<<"a">>, <<"a", "b">>}
IsoProjects == {<<"a">>, <<"a", "b">>}

\* one caller records spends in the project "a:b", another checks for the
\* user "a" in the project "a"
NextIsolation ==
  \/ \E u \in IsoUsers : StartRecord(1, u, RaceAmount, <<"a", "b">>, RaceModel)
  \/ RecordStep(1)
  \/ StartCheck(2, <<"a">>, <<"a">>, RaceEstimate)
  \/ CheckStep(2)
  \/ Tick

SpecIsolation == Init /\ [][NextIsolation]_vars

\* the step leaves the counter at key k as it is
Untouched(k) ==
  /\ k \in DOMAIN store <=> k \in DOMAIN store'
  /\ k \in DOMAIN store => store'[k] = store[k]

\* caller p's record_spend makes an increment in this step
RecordMoves(p) ==
  /\ calls[p].op = "record" /\ calls[p].pc = "run"
  /\ calls'[p].pc = "idle" \/ calls'[p].i # calls[p].i

\* C36: isolation between identities.  The derivation of keys is injective
\* on (scope kind, scope id, date), also for ids that contain colons: two
\* calls share a key only for the same scope, and an increment of
\* record_spend for (user u1, project p1) leaves the counter of every other
\* user and of every other project as it is, on every date, so that the
\* user counter a check for another user reads is not changed by it.
C36_Isolation ==
  /\ [](\A i \in 1..Len(calls[1].items), j \in 1..Len(calls[2].items) :
          calls[1].items[i].key = calls[2].items[j].key
            => calls[1].items[i].scope = calls[2].items[j].scope)
  /\ [][\A p \in Procs :
          RecordMoves(p) =>
            /\ \A u \in IsoUsers \ {calls[p].user}, d \in DatesSeen :
                 Untouched(ScopeKey("user", u, d))
            /\ \A pr \in IsoProjects \ {calls[p].project}, d \in DatesSeen :
                 Untouched(ScopeKey("project", pr, d))
            /\ \A q \in Procs \ {p} :
                 (calls[q].op = "check" /\ calls[q].pc = "run"
                  /\ calls[q].user # calls[p].user)
                   => Untouched(calls[q].items[Len(calls[q].items)].key)]_vars

\* a spend of the user "a:b" in the project "a:b" went through while a check
\* for the user "a" in the project "a" was in progress: the counters of the
\* user "a" and of the project "a" are still absent
C36_Witness ==
  /\ last.op = "record" /\ last.outcome = "ok"
  /\ last.user = <<"a", "b">> /\ last.project = <<"a", "b">>
  /\ Usage(ScopeKey("user", <<"a", "b">>, Today)) > 0
  /\ Usage(ScopeKey("project", <<"a", "b">>, Today)) > 0
  /\ ScopeKey("user", <<"a">>, Today) \notin DOMAIN store
  /\ ScopeKey("project", <<"a">>, Today) \notin DOMAIN store
  /\ calls[2].op = "check" /\ calls[2].pc = "run"
  /\ calls[2].user = <<"a">> /\ calls[2].project = <<"a">>
====
